---- MODULE Spec2Model ----
(***************************************************************************)
(* A model of the VIVO ingest drivers of this repository:                  *)
(*   grants/grant_ingest.py, people/person-ingest.py and                  *)
(*   courses/course_ingest.py, with the helpers of tools/vivopeople.py.    *)
(* The triple store is a set of <<subject, predicate, object>> triples of  *)
(* strings.  Each driver is a sequential batch program; its position is    *)
(* pc, and one action is one step of the driver (one row read, one key     *)
(* processed).                                                             *)
(***************************************************************************)
EXTENDS Integers, Sequences, FiniteSets, TLC

VARIABLES
    driver,             \* the driver that runs: "grants", "people" or "courses"
    pc,                 \* position of the running driver
    run,                \* number of the current run of the driver
    vivo,               \* the triple store
    clock,              \* datetime.now(): advances at every reading
    next_uri,           \* vt.get_vivo_uri(): the next unused identifier
    add_file,           \* statements written to the addition RDF
    sub_file,           \* statements written to the subtraction RDF
    exc_file,           \* records written to the exception file
    log_file,           \* <<key, case>> entries written to the log
    action_report,      \* key -> 1 | 2 | 3
    batch,              \* key -> the ardf and srdf the main loop wrote for it
    deptid_dictionary,
    ufid_dictionary,
    row,                \* the row or the key the driver takes up next
    \* grant ingest
    dsp_data,           \* the rows of the DSP file
    dsp_dictionary,
    error_count,
    ardf,               \* the RDF make_dsp_dictionary accumulates
    sponsor_dictionary,
    date_dictionary,
    datetime_interval_dictionary,
    grant_dictionary,
    \* person ingest
    position_csv,            \* the rows of position_data.csv
    contact_csv,       \* the rows of contact_csv.csv
    privacy_csv,       \* the rows of privacy_csv.csv
    hr_dictionary,
    contact_dictionary,
    privacy_dictionary,
    uri_exception_dictionary,
    ufid_exception_dictionary,
    deptid_exception_dictionary,
    people,             \* person_ingest.py: row -> the person prepare_people made of it
    \* course ingest
    course_csv,         \* the rows of course_data.csv
    taught_dictionary,
    term_dictionary,
    course_dictionary,
    section_dictionary,
    todo,               \* the rows the main loop has still to take up
    add_ufid,
    pos_file,           \* records written to the position file
    \* library functions called on their own
    arg,                \* the argument: comma_space's s, of the innermost call,
                        \* fix_email's email, get_pmid_from_doi's doi
    frames,             \* comma_space: what each pending call puts before its result
    count,              \* get_pmid_from_doi: the failed attempts
    responses,          \* get_pmid_from_doi: what Entrez gave to each urlopen call
    returned            \* the value the function returned

gvars == <<dsp_data, dsp_dictionary, error_count, ardf, sponsor_dictionary,
           date_dictionary, datetime_interval_dictionary, grant_dictionary>>
cvars == <<pc, run, vivo, clock, next_uri, add_file, sub_file, exc_file,
           log_file, action_report, batch, deptid_dictionary, ufid_dictionary, row>>
pvars == <<position_csv, contact_csv, privacy_csv, hr_dictionary, contact_dictionary,
           privacy_dictionary, uri_exception_dictionary, ufid_exception_dictionary,
           deptid_exception_dictionary, people>>
tvars == <<course_csv, taught_dictionary, term_dictionary, course_dictionary,
           section_dictionary, todo, add_ufid, pos_file>>
lvars == <<arg, frames, count, responses, returned>>
vars == <<driver, cvars, gvars, pvars, tvars, lvars>>

----------------------------------------------------------------------------
(* Python values *)

None == "<None>"

Get(d, k, default) == IF k \in DOMAIN d THEN d[k] ELSE default

Put(d, k, v) == [x \in DOMAIN d \cup {k} |-> IF x = k THEN v ELSE d[x]]

InSeq(x, s) == \E i \in DOMAIN s : s[i] = x

Count(s, x) == Cardinality({i \in DOMAIN s : s[i] = x})

RECURSIVE SetToSeq(_)
SetToSeq(S) == IF S = {} THEN <<>>
               ELSE LET x == CHOOSE y \in S : TRUE
                    IN <<x>> \o SetToSeq(S \ {x})

\* The natural keys of the model in ascending (sorted()) order.
KeyOrder == <<"p1", "p2", "p3", "u1", "u2", "u3">>

Sorted(S) == SelectSeq(KeyOrder, LAMBDA k : k \in S)

\* vt.get_vivo_uri(): an identifier not used before.
Uri(n) == "n" \o ToString(n)

\* str(datetime.now())
Now(t) == "t" \o ToString(t)

----------------------------------------------------------------------------
(* The triple store and its queries *)

Objects(G, s, p) == {t[3] : t \in {u \in G : u[1] = s /\ u[2] = p}}

Subjects(G, p, o) == {t[1] : t \in {u \in G : u[2] = p /\ u[3] = o}}

\* A SPARQL result with one binding per <<key, uri>> pair becomes a
\* dictionary: a later binding overwrites an earlier one with the same key.
DictOf(pairs) ==
    [k \in {b[1] : b \in pairs} |-> CHOOSE u \in {b[2] : b \in {c \in pairs : c[1] = k}} : TRUE]

make_deptid_dictionary(G) ==
    DictOf({<<t[3], t[1]>> : t \in {u \in G : u[2] = "ufVivo:deptID"}})

make_ufid_dictionary(G) ==
    DictOf({<<t[3], t[1]>> : t \in {u \in G : u[2] = "ufVivo:ufid"}})

make_sponsor_dictionary(G) ==
    DictOf({<<t[3], t[1]>> : t \in {u \in G : u[2] = "ufVivo:sponsorID"
                                       /\ <<u[1], "rdf:type", "foaf:Organization">> \in G}})

\* The result vt.vivo_sparql_query returns when the bindings come through.
QueryResult(bindings) == [results |-> [bindings |-> bindings]]

\* The results vt.vivo_sparql_query may return for a query with the given
\* bindings: these bindings, or a result without "results" in it.
vivo_sparql_query(bindings) == {QueryResult(bindings), [error |-> "no results"]}

\* The bindings a builder reads from a result: count is 0 when
\* result["results"]["bindings"] cannot be read.
bindings_read(result) ==
    IF "results" \in DOMAIN result THEN result.results.bindings ELSE {}

\* The bindings of the query of make_grant_dictionary over the graph G.
grant_query(G) ==
    {<<t[3], t[1]>> : t \in {u \in G : u[2] = "ufVivo:psContractNumber"
                                 /\ <<u[1], "rdf:type", "vivo:Grant">> \in G}}

make_grant_dictionary(G) == DictOf(bindings_read(QueryResult(grant_query(G))))

----------------------------------------------------------------------------
(* Conversions of grant ingest *)

\* float(s): [ok |-> FALSE] is ValueError.
Float(s) ==
    CASE s = "100" -> [ok |-> TRUE, v |-> 100]
      [] s = "50"  -> [ok |-> TRUE, v |-> 50]
      [] s = "250" -> [ok |-> TRUE, v |-> 250]
      [] s = "-5"  -> [ok |-> TRUE, v |-> 0 - 5]
      [] OTHER     -> [ok |-> FALSE, v |-> 0]

\* datetime.strptime(s, '%m/%d/%Y'): 0 is ValueError; dates are yyyymmdd.
strptime(s) ==
    CASE s = "12/31/2013" -> 20131231
      [] s = "01/01/2014" -> 20140101
      [] s = "06/30/2015" -> 20150630
      [] s = "09/15/2016" -> 20160915
      [] OTHER            -> 0

\* datetime.isoformat()
isoformat(d) ==
    CASE d = 20131231 -> "2013-12-31T00:00:00"
      [] d = 20140101 -> "2014-01-01T00:00:00"
      [] d = 20150630 -> "2015-06-30T00:00:00"
      [] d = 20160915 -> "2016-09-15T00:00:00"
      [] OTHER        -> "0000-00-00T00:00:00"

\* datetime.strptime(dt[0:10], '%Y-%m-%d') of make_date_dictionary
strptime_iso(s) ==
    CASE s = "2013-12-31T00:00:00" -> 20131231
      [] s = "2014-01-01T00:00:00" -> 20140101
      [] s = "2015-06-30T00:00:00" -> 20150630
      [] s = "2016-09-15T00:00:00" -> 20160915
      [] OTHER                     -> 0

\* The title as DSP abbreviates it, lengthened for readability.
improve_grant_title(s) ==
    CASE s = ""           -> ""
      [] s = "RES STDY,"  -> "Research Study"
      [] s = "CLIN TRLS"  -> "Clinical Trials"
      [] OTHER            -> s

make_date_dictionary(G) ==
    DictOf({<<strptime_iso(t[3]), t[1]>> :
              t \in {u \in G : u[2] = "vivo:dateTime"
                        /\ <<u[1], "vivo:dateTimePrecision", "vivo:yearMonthDayPrecision">> \in G}})

make_datetime_interval_dictionary(G) ==
    DictOf({<<t[3] \o e[3], t[1]>> :
              <<t, e>> \in {te \in {u \in G : u[2] = "vivo:start"} \X {u \in G : u[2] = "vivo:end"} :
                              te[1][1] = te[2][1]}})

find_datetime_interval_unkeyed(start_uri, end_uri, dict) == [found |-> FALSE, uri |-> None]

find_datetime_interval(start_uri, end_uri, dict) ==
    LET start_key == IF start_uri = None \/ start_uri = "" THEN "None" ELSE start_uri
        end_key == IF end_uri = None \/ end_uri = "" THEN "None" ELSE end_uri
    IN IF (start_key \o end_key) \in DOMAIN dict
       THEN [found |-> TRUE, uri |-> dict[start_key \o end_key]]
       ELSE [found |-> FALSE, uri |-> None]

find_sponsor(sponsorid, dict) ==
    IF sponsorid \in DOMAIN dict THEN [found |-> TRUE, uri |-> dict[sponsorid]]
    ELSE [found |-> FALSE, uri |-> None]

find_deptid(deptid, dict) ==
    IF deptid \in DOMAIN dict THEN [found |-> TRUE, uri |-> dict[deptid]]
    ELSE [found |-> FALSE, uri |-> None]

find_person(ufid, dict) ==
    IF ufid \in DOMAIN dict THEN [found |-> TRUE, uri |-> dict[ufid]]
    ELSE [found |-> FALSE, uri |-> None]

\* vt.make_datetime_rdf(iso): a date value at year-month-day precision.
make_datetime_rdf(uri, iso) ==
    {<<uri, "rdf:type", "vivo:DateTimeValue">>,
     <<uri, "vivo:dateTime", iso>>,
     <<uri, "vivo:dateTimePrecision", "vivo:yearMonthDayPrecision">>}

\* vt.make_dt_interval_rdf(start_uri, end_uri)
make_dt_interval_rdf(uri, start_uri, end_uri) ==
    {<<uri, "rdf:type", "vivo:DateTimeInterval">>}
    \cup (IF start_uri = None THEN {} ELSE {<<uri, "vivo:start", start_uri>>})
    \cup (IF end_uri = None THEN {} ELSE {<<uri, "vivo:end", end_uri>>})

HarvestedBy == "Python Grants 0.8"

----------------------------------------------------------------------------
(* make_dsp_dictionary: one iteration of the loop over the rows *)

\* The exception records of the investigators of one type, in list order.
RECURSIVE unresolved(_, _, _, _)
unresolved(pcn, ufid_type, ufid_list, dict) ==
    IF ufid_list = <<>> THEN <<>>
    ELSE (IF find_person(Head(ufid_list), dict).found THEN <<>>
          ELSE << <<pcn, ufid_type, Head(ufid_list), "not found in VIVO">> >>)
         \o unresolved(pcn, ufid_type, Tail(ufid_list), dict)

\* The URIs appended for the investigators of one type, in list order.
RECURSIVE resolved(_, _)
resolved(ufid_list, dict) ==
    IF ufid_list = <<>> THEN <<>>
    ELSE (IF find_person(Head(ufid_list), dict).found
          THEN <<dict[Head(ufid_list)]>> ELSE <<>>)
         \o resolved(Tail(ufid_list), dict)

\* The end of one iteration: `continue` on any error, else the row is
\* assigned to the dictionary entry of its pcn.
AssignRowDropped(dict, pcn, data, any_error) == Put(dict, pcn, data)

AssignRow(dict, pcn, data, any_error) ==
    IF any_error THEN dict ELSE Put(dict, pcn, data)

\* One pass of the loop body for row r.  dd and did are the date and the
\* datetime interval dictionaries, n the next unused identifier, now the
\* clock.  The result holds what the pass leaves behind; crash is TRUE when
\* the pass raises the TypeError of None + str at the interval key.
make_dsp_row(r, dd, did, n, now, deptids, sponsors, ufids) ==
    LET pcn == r.AwardID
        data0 == [pcn |-> pcn,
                  title |-> improve_grant_title(r.Title),
                  sponsor_award_id |-> r.SponsorAwardID,
                  local_award_id |-> r.AwardID,
                  harvested_by |-> HarvestedBy,
                  date_harvested |-> Now(now)] @@ r
        \* Award amounts
        total == Float(r.TotalAwarded)
        direct == Float(r.DirectCosts)
        data1 == (IF total.ok THEN [total_award_amount |-> r.TotalAwarded] ELSE <<>>)
                 @@ (IF direct.ok THEN [grant_direct_costs |-> r.DirectCosts] ELSE <<>>)
                 @@ data0
        exc1 == (IF total.ok THEN <<>>
                 ELSE << <<pcn, "Total Award Amount", r.TotalAwarded, "invalid number">> >>)
             \o (IF direct.ok THEN <<>>
                 ELSE << <<pcn, "Grant Direct Costs", r.DirectCosts, "invalid number">> >>)
             \o (IF total.ok /\ total.v < 0
                 THEN << <<pcn, "Total Award Amount", r.TotalAwarded, "must not be negative">> >>
                 ELSE <<>>)
             \o (IF direct.ok /\ direct.v < 0
                 THEN << <<pcn, "Grant Direct Costs", r.DirectCosts, "must not be negative">> >>
                 ELSE <<>>)
             \o (IF direct.ok /\ total.ok /\ total.v < direct.v
                 THEN << <<pcn, "Total Award Amount", r.TotalAwarded,
                           "must not be less than Grant Direct Costs", r.DirectCosts>> >>
                 ELSE <<>>)
        \* Admin department and sponsor
        dept == find_deptid(r.DeptID, deptids)
        spon == find_sponsor(r.SponsorID, sponsors)
        data2 == (IF dept.found THEN [administered_by_uri |-> dept.uri] ELSE <<>>)
                 @@ (IF spon.found THEN [sponsor_uri |-> spon.uri] ELSE <<>>)
                 @@ data1
        exc2 == (IF dept.found THEN <<>>
                 ELSE << <<pcn, "DeptID", r.DeptID, "not found in VIVO">> >>)
             \o (IF spon.found THEN <<>>
                 ELSE << <<pcn, "Sponsor", r.SponsorID, "not found in VIVO">> >>)
        \* Start date
        start_date == strptime(r.StartDate)
        start_new == start_date # 0 /\ start_date \notin DOMAIN dd
        start_date_uri == IF start_date = 0 THEN None
                          ELSE IF start_new THEN Uri(n) ELSE dd[start_date]
        dd1 == IF start_new THEN Put(dd, start_date, start_date_uri) ELSE dd
        n1 == IF start_new THEN n + 1 ELSE n
        ardf1 == IF start_new THEN make_datetime_rdf(start_date_uri, isoformat(start_date))
                 ELSE {}
        \* End date
        end_date == strptime(r.EndDate)
        end_new == end_date # 0 /\ end_date \notin DOMAIN dd1
        end_date_uri == IF end_date = 0 THEN None
                        ELSE IF end_new THEN Uri(n1) ELSE dd1[end_date]
        dd2 == IF end_new THEN Put(dd1, end_date, end_date_uri) ELSE dd1
        n2 == IF end_new THEN n1 + 1 ELSE n1
        ardf2 == IF end_new THEN make_datetime_rdf(end_date_uri, isoformat(end_date))
                 ELSE {}
        exc3 == (IF start_date = 0 THEN << <<pcn, "Start date", r.StartDate, "invalid">> >>
                 ELSE <<>>)
             \o (IF end_date = 0 THEN << <<pcn, "End date", r.EndDate, "invalid">> >>
                 ELSE <<>>)
             \o (IF end_date # 0 /\ start_date # 0 /\ end_date < start_date
                 THEN << <<pcn, "End date", r.EndDate, "before start date", r.StartDate>> >>
                 ELSE <<>>)
        \* Datetime interval
        dti == find_datetime_interval(start_date_uri, end_date_uri, did)
        dti_new == ~dti.found /\ (start_date_uri # None \/ end_date_uri # None)
        crash == dti_new /\ (start_date_uri = None \/ end_date_uri = None)
        dti_uri == IF dti.found THEN dti.uri ELSE Uri(n2)
        did1 == IF dti_new /\ ~crash
                THEN Put(did, start_date_uri \o end_date_uri, dti_uri) ELSE did
        n3 == IF dti_new THEN n2 + 1 ELSE n2
        ardf3 == IF dti_new /\ ~crash
                 THEN make_dt_interval_rdf(dti_uri, start_date_uri, end_date_uri) ELSE {}
        data3 == (IF dti.found \/ dti_new THEN [dti_uri |-> dti_uri] ELSE <<>>) @@ data2
        \* Investigators
        data4 == [pi_uris |-> resolved(r.PI, ufids),
                  coi_uris |-> resolved(r.CoPI, ufids),
                  inv_uris |-> resolved(r.Inv, ufids)] @@ data3
        exc4 == unresolved(pcn, "PI", r.PI, ufids)
             \o unresolved(pcn, "CoPI", r.CoPI, ufids)
             \o unresolved(pcn, "Inv", r.Inv, ufids)
    IN IF crash
       THEN [crash |-> TRUE, exc |-> exc1 \o exc2 \o exc3, any_error |-> TRUE,
             data |-> data2, dd |-> dd2, did |-> did, ardf |-> ardf1 \cup ardf2,
             n |-> n3]
       ELSE [crash |-> FALSE, exc |-> exc1 \o exc2 \o exc3 \o exc4,
             any_error |-> (exc1 \o exc2 \o exc3 \o exc4) # <<>>,
             data |-> data4, dd |-> dd2, did |-> did1,
             ardf |-> ardf1 \cup ardf2 \cup ardf3, n |-> n3]

----------------------------------------------------------------------------
(* vivopeople.get_grant and get_role *)

get_role(G, role_uri) ==
    LET co == Objects(G, role_uri, "vivo:co-PrincipalInvestigatorRoleOf")
        pi == Objects(G, role_uri, "vivo:principalInvestigatorRoleOf")
        inv == Objects(G, role_uri, "vivo:investigatorRoleOf")
    IN (IF co = {} THEN <<>>
        ELSE [co_principal_investigator_role_of |-> CHOOSE o \in co : TRUE])
       @@ (IF pi = {} THEN <<>>
           ELSE [principal_investigator_role_of |-> CHOOSE o \in pi : TRUE])
       @@ (IF inv = {} THEN <<>>
           ELSE [investigator_role_of |-> CHOOSE o \in inv : TRUE])

\* A role of the type of key puts its person on the list of the type, once,
\* and role_uris, keyed by person alone, keeps the role seen last.
deref_role_type(g, role, role_uri, key, list) ==
    IF key \in DOMAIN role /\ ~InSeq(role[key], g[list])
    THEN [g EXCEPT ![list] = Append(@, role[key]),
                   !.role_uris = Put(@, role[key], role_uri)]
    ELSE g

deref_role(g, role, role_uri) ==
    deref_role_type(
        deref_role_type(
            deref_role_type(g, role, role_uri, "principal_investigator_role_of", "pi_uris"),
            role, role_uri, "co_principal_investigator_role_of", "coi_uris"),
        role, role_uri, "investigator_role_of", "inv_uris")

\* The roles dereferenced one after the other, in the order of
\* contributing_role_uris.
RECURSIVE deref_roles(_, _, _)
deref_roles(G, roles, g) ==
    IF roles = <<>> THEN g
    ELSE deref_roles(G, Tail(roles), deref_role(g, get_role(G, Head(roles)), Head(roles)))

\* The data and resource properties get_grant reads, key -> predicate.
GrantPredicates ==
    [title |-> "rdfs:label",
     total_award_amount |-> "vivo:totalAwardAmount",
     grant_direct_costs |-> "vivo:grantDirectCosts",
     sponsor_award_id |-> "vivo:sponsorAwardId",
     dsr_number |-> "ufVivo:dsrNumber",
     pcn |-> "ufVivo:psContractNumber",
     date_harvested |-> "ufVivo:dateHarvested",
     harvested_by |-> "ufVivo:harvestedBy",
     local_award_id |-> "vivo:localAwardId",
     administered_by_uri |-> "vivo:administeredBy",
     sponsor_uri |-> "vivo:grantAwardedBy",
     dti_uri |-> "vivo:dateTimeInterval"]

\* get_grant(grant_uri): props holds the keys whose predicate the grant has;
\* roles is the order in which the store returns the contributing roles.
get_grant(G, grant_uri, roles) ==
    LET has == {k \in DOMAIN GrantPredicates : Objects(G, grant_uri, GrantPredicates[k]) # {}}
        props == [k \in has |-> CHOOSE o \in Objects(G, grant_uri, GrantPredicates[k]) : TRUE]
    IN deref_roles(G, roles,
                   [props |-> props, contributing_role_uris |-> roles,
                    pi_uris |-> <<>>, coi_uris |-> <<>>, inv_uris |-> <<>>,
                    role_uris |-> <<>>])

\* The orders the store may return the contributing roles of a grant in.
RoleOrders(G, grant_uri) ==
    LET S == Objects(G, grant_uri, "vivo:contributingRole")
    IN {q \in [1..Cardinality(S) -> S] : \A i, j \in DOMAIN q : i # j => q[i] # q[j]}

----------------------------------------------------------------------------
(* The Field Reconciler: vt.update_data_property, vt.update_resource_property *)

update_data_property(uri, predicate, vivo_value, source_value) ==
    IF vivo_value = None /\ source_value = None THEN [add |-> {}, sub |-> {}]
    ELSE IF vivo_value = None THEN [add |-> {<<uri, predicate, source_value>>}, sub |-> {}]
    ELSE IF source_value = None THEN [add |-> {}, sub |-> {<<uri, predicate, vivo_value>>}]
    ELSE IF vivo_value = source_value THEN [add |-> {}, sub |-> {}]
    ELSE [add |-> {<<uri, predicate, source_value>>},
          sub |-> {<<uri, predicate, vivo_value>>}]

update_resource_property(uri, predicate, vivo_value, source_value) ==
    update_data_property(uri, predicate, vivo_value, source_value)

\* vt.remove_uri(uri): every statement the entity is the subject or the
\* object of.
remove_uri(G, uri) == {t \in G : t[1] = uri \/ t[3] = uri}

----------------------------------------------------------------------------
(* update_grant and add_grant *)

GrantProperties ==
    {"title", "total_award_amount", "sponsor_award_id", "grant_direct_costs",
     "dsr_number", "pcn", "date_harvested", "harvested_by", "local_award_id"}

GrantResources == {"administered_by_uri", "dti_uri", "sponsor_uri"}

\* The value of a key, with the empty string and the absent key as None.
Normal(d, k) == IF k \in DOMAIN d THEN (IF d[k] = "" THEN None ELSE d[k]) ELSE None

\* One pass of the loops over properties and resources.
UpdateGrantProperty(grant_uri, grant, grant_data, k) ==
    update_data_property(grant_uri, GrantPredicates[k],
                         Normal(grant.props, k), Normal(grant_data, k))

investigator_types ==
    << <<"pi_uris", "vivo:PrincipalInvestigatorRole",
         "vivo:principalInvestigatorRoleOf", "vivo:hasPrincipalInvestigatorRole">>,
       <<"coi_uris", "vivo:CoPrincipalInvestigatorRole",
         "vivo:co-PrincipalInvestigatorRoleOf", "vivo:hasCo-PrincipalInvestigatorRole">>,
       <<"inv_uris", "vivo:InvestigatorRole",
         "vivo:investigatorRoleOf", "vivo:hasInvestigatorRole">> >>

\* The statements of a new role of type it for person uri.
new_role_rdf(role_uri, it, uri, grant_uri, dti_uri) ==
    {<<role_uri, "rdf:type", "owl:Thing">>,
     <<role_uri, "rdf:type", "vivo:Role">>,
     <<role_uri, "rdf:type", "vivo:ResearcherRole">>,
     <<role_uri, "rdf:type", "vivo:InvestigatorRole">>,
     <<role_uri, "rdf:type", it[2]>>,
     <<role_uri, it[3], uri>>,
     <<role_uri, "vivo:dateTimeInterval", dti_uri>>,
     <<grant_uri, "vivo:contributingRole", role_uri>>,
     <<role_uri, "vivo:roleContributesTo", grant_uri>>,
     <<uri, it[4], role_uri>>}

\* The loop over uri_case for the pairs <<investigator type, uri>> of work.
\* acc.crash is the KeyError of grant['role_uris'][uri].
RECURSIVE update_roles(_, _, _, _, _, _)
update_roles(G, grant_uri, grant, grant_data, work, acc) ==
    IF work = <<>> \/ acc.crash THEN acc
    ELSE LET it == Head(work)[1]
             uri == Head(work)[2]
             uri_case == Count(grant_data[it[1]], uri) + 2 * Count(grant[it[1]], uri)
             acc1 ==
                 IF uri_case = 3 THEN acc
                 ELSE IF uri_case = 2
                 THEN IF uri \in DOMAIN grant.role_uris
                      THEN [acc EXCEPT !.srdf = @ \cup remove_uri(G, grant.role_uris[uri])]
                      ELSE [acc EXCEPT !.crash = TRUE]
                 ELSE [acc EXCEPT !.ardf = @ \cup new_role_rdf(Uri(acc.n), it, uri, grant_uri,
                                                              grant_data.dti_uri),
                                  !.n = @ + 1]
         IN update_roles(G, grant_uri, grant, grant_data, Tail(work), acc1)

RoleWork(grant, grant_data) ==
    LET keys(i) == {grant_data[investigator_types[i][1]][j] :
                        j \in DOMAIN grant_data[investigator_types[i][1]]}
                   \cup {grant[investigator_types[i][1]][j] :
                        j \in DOMAIN grant[investigator_types[i][1]]}
        pairs(i) == LET q == SetToSeq(keys(i))
                    IN [j \in DOMAIN q |-> <<investigator_types[i], q[j]>>]
    IN pairs(1) \o pairs(2) \o pairs(3)

\* update_grant once get_grant has returned grant.
update_grant_of(G, grant_uri, grant, grant_data, n) ==
    update_roles(G, grant_uri, grant, grant_data, RoleWork(grant, grant_data),
                 [ardf |-> UNION {UpdateGrantProperty(grant_uri, grant, grant_data, k).add :
                                     k \in GrantProperties \cup GrantResources},
                  srdf |-> UNION {UpdateGrantProperty(grant_uri, grant, grant_data, k).sub :
                                     k \in GrantProperties \cup GrantResources},
                  n |-> n, crash |-> FALSE])

update_grant(G, grant_uri, grant_data, roles, n) ==
    update_grant_of(G, grant_uri, get_grant(G, grant_uri, roles), grant_data, n)

add_grant(G, grant_data, n) ==
    [update_grant(G, Uri(n), grant_data, <<>>, n + 1)
        EXCEPT !.ardf = @ \cup {<<Uri(n), "rdf:type", "owl:Thing">>,
                                <<Uri(n), "rdf:type", "vivo:Grant">>},
               !.srdf = {}]

----------------------------------------------------------------------------
(* The inputs of grant ingest *)

MaxRows == 2
MaxRuns == 2

\* People, organisations, dates and one date interval already in VIVO, and
\* the grant of contract p3, which DSP never lists.
BaseVivo ==
    {<<"per1", "ufVivo:ufid", "u1">>, <<"per2", "ufVivo:ufid", "u2">>,
     <<"org1", "ufVivo:deptID", "d1">>,
     <<"spo1", "rdf:type", "foaf:Organization">>, <<"spo1", "ufVivo:sponsorID", "s1">>,
     <<"g3", "rdf:type", "vivo:Grant">>, <<"g3", "ufVivo:psContractNumber", "p3">>}
    \cup make_datetime_rdf("dv1", "2014-01-01T00:00:00")
    \cup make_datetime_rdf("dv2", "2015-06-30T00:00:00")
    \cup make_dt_interval_rdf("dti1", "dv1", "dv2")

\* The grant of contract p1 as VIVO holds it: title and dsr are None when
\* the grant has no such statement.  per1 is its PI and per2 its Co-PI.
VivoGrant(title, dsr) ==
    {<<"g1", "rdf:type", "vivo:Grant">>,
     <<"g1", "ufVivo:psContractNumber", "p1">>,
     <<"g1", "vivo:totalAwardAmount", "100">>,
     <<"g1", "vivo:grantDirectCosts", "50">>,
     <<"g1", "vivo:sponsorAwardId", "SA1">>,
     <<"g1", "vivo:localAwardId", "p1">>,
     <<"g1", "ufVivo:harvestedBy", HarvestedBy>>,
     <<"g1", "ufVivo:dateHarvested", Now(0)>>,
     <<"g1", "vivo:administeredBy", "org1">>,
     <<"g1", "vivo:grantAwardedBy", "spo1">>,
     <<"g1", "vivo:dateTimeInterval", "dti1">>,
     <<"g1", "vivo:contributingRole", "r1">>,
     <<"r1", "vivo:roleContributesTo", "g1">>,
     <<"r1", "vivo:principalInvestigatorRoleOf", "per1">>,
     <<"g1", "vivo:contributingRole", "r2">>,
     <<"r2", "vivo:roleContributesTo", "g1">>,
     <<"r2", "vivo:co-PrincipalInvestigatorRoleOf", "per2">>}
    \cup (IF title = None THEN {} ELSE {<<"g1", "rdfs:label", title>>})
    \cup (IF dsr = None THEN {} ELSE {<<"g1", "ufVivo:dsrNumber", dsr>>})

GrantGraphs ==
    {BaseVivo}
    \cup {BaseVivo \cup VivoGrant(t, None) : t \in {None, "", "Research Study", "Old Title"}}
    \cup {BaseVivo \cup VivoGrant("Research Study", "DSR7")}

\* A row of the DSP file.  PI, CoPI and Inv hold the UFIDs of the
\* comma-separated field; the empty field is <<>>.
DspRow(pcn, title, said, total, direct, dept, sponsor, start, end, pi, coi, inv) ==
    [AwardID |-> pcn, Title |-> title, SponsorAwardID |-> said,
     TotalAwarded |-> total, DirectCosts |-> direct, DeptID |-> dept,
     SponsorID |-> sponsor, StartDate |-> start, EndDate |-> end,
     PI |-> pi, CoPI |-> coi, Inv |-> inv]

\* Rows that pass every validation.
ValidRows ==
    {DspRow("p1", title, "SA1", "100", "50", "d1", "s1", "01/01/2014", end,
            <<"u1">>, <<>>, <<"u2">>) :
        title \in {"", "RES STDY,"}, end \in {"06/30/2015", "09/15/2016"}}
    \cup {DspRow("p2", "CLIN TRLS", "SA2", "250", "100", "d1", "s1", "01/01/2014", end,
                 <<"u2">>, <<"u1">>, <<>>) :
        end \in {"06/30/2015", "09/15/2016"}}

\* The ways a row can fail a validation.
Faults == {"total_nan", "total_neg", "direct_nan", "direct_neg", "total_lt_direct",
           "dept", "sponsor", "start_bad", "end_bad", "end_before_start",
           "pi", "coi", "inv"}

\* The row of contract pcn with the faults F; its end date is not in VIVO.
FaultRow(pcn, F) ==
    DspRow(pcn, "RES STDY,", "SA1",
           IF "total_nan" \in F THEN "x" ELSE IF "total_neg" \in F THEN "-5" ELSE "100",
           IF "direct_nan" \in F THEN "y"
           ELSE IF "direct_neg" \in F THEN "-5"
           ELSE IF "total_lt_direct" \in F THEN "250" ELSE "50",
           IF "dept" \in F THEN "dX" ELSE "d1",
           IF "sponsor" \in F THEN "sX" ELSE "s1",
           IF "start_bad" \in F THEN "2014-13-45" ELSE "01/01/2014",
           IF "end_bad" \in F THEN "June 2015"
           ELSE IF "end_before_start" \in F THEN "12/31/2013" ELSE "09/15/2016",
           IF "pi" \in F THEN <<"u1", "uX">> ELSE <<"u1">>,
           IF "coi" \in F THEN <<"uY">> ELSE <<>>,
           IF "inv" \in F THEN <<"uZ", "u2">> ELSE <<"u2">>)

\* No fault, one fault, or a date fault with one more fault.
FaultSets ==
    {{}} \cup {{f} : f \in Faults}
    \cup {{f, g} : f \in {"start_bad", "end_bad"}, g \in Faults}

FaultRows == {FaultRow("p1", F) : F \in FaultSets} \cup {FaultRow("p2", {})}

UpdateRows == ValidRows \cup {FaultRow("p1", {"sponsor"}), FaultRow("p2", {"start_bad"})}

Files(rows) == UNION {[1..n -> rows] : n \in 0..MaxRows}

----------------------------------------------------------------------------
(* The grant ingest driver *)

\* The variables of the other drivers, which this one leaves alone.
InitPeople ==
    /\ position_csv = <<>> /\ contact_csv = <<>> /\ privacy_csv = <<>>
    /\ hr_dictionary = <<>> /\ contact_dictionary = <<>> /\ privacy_dictionary = <<>>
    /\ uri_exception_dictionary = {} /\ ufid_exception_dictionary = {}
    /\ deptid_exception_dictionary = {}
    /\ people = <<>>

InitCourses ==
    /\ course_csv = <<>> /\ taught_dictionary = <<>> /\ term_dictionary = <<>>
    /\ course_dictionary = <<>> /\ section_dictionary = <<>>
    /\ todo = {} /\ add_ufid = {} /\ pos_file = <<>>

InitLibrary ==
    /\ arg = <<>> /\ frames = <<>>
    /\ count = 0 /\ responses = <<>> /\ returned = None

InitGrants ==
    /\ dsp_data = <<>> /\ dsp_dictionary = <<>> /\ error_count = 0 /\ ardf = {}
    /\ sponsor_dictionary = <<>> /\ date_dictionary = <<>>
    /\ datetime_interval_dictionary = <<>> /\ grant_dictionary = <<>>

InitGrant(files, graphs) ==
    /\ driver = "grants"
    /\ InitLibrary
    /\ pc = "start"
    /\ run = 1
    /\ vivo \in graphs
    /\ dsp_data \in files
    /\ clock = 1
    /\ next_uri = 1
    /\ add_file = {} /\ sub_file = {} /\ exc_file = <<>> /\ log_file = <<>>
    /\ action_report = <<>> /\ batch = <<>>
    /\ deptid_dictionary = <<>> /\ ufid_dictionary = <<>>
    /\ row = 0 /\ dsp_dictionary = <<>> /\ error_count = 0 /\ ardf = {}
    /\ sponsor_dictionary = <<>> /\ date_dictionary = <<>>
    /\ datetime_interval_dictionary = <<>> /\ grant_dictionary = <<>>
    /\ InitPeople
    /\ InitCourses

\* The output files are opened and the dictionaries are made from VIVO.
GrantStartWith(result) ==
    /\ driver = "grants"
    /\ pc = "start"
    /\ pc' = "read"
    /\ add_file' = {} /\ sub_file' = {} /\ exc_file' = <<>> /\ log_file' = <<>>
    /\ deptid_dictionary' = make_deptid_dictionary(vivo)
    /\ ufid_dictionary' = make_ufid_dictionary(vivo)
    /\ sponsor_dictionary' = make_sponsor_dictionary(vivo)
    /\ date_dictionary' = make_date_dictionary(vivo)
    /\ datetime_interval_dictionary' = make_datetime_interval_dictionary(vivo)
    /\ grant_dictionary' = DictOf(bindings_read(result))
    /\ row' = 1 /\ dsp_dictionary' = <<>> /\ error_count' = 0 /\ ardf' = {}
    /\ action_report' = <<>> /\ batch' = <<>>
    /\ UNCHANGED <<run, vivo, clock, next_uri, dsp_data, pvars, tvars, driver, lvars>>

\* The run starts with the query of make_grant_dictionary answered.
GrantStart == GrantStartWith(QueryResult(grant_query(vivo)))

\* The run starts with any result the query interface may return.
GrantStartAnyResult == \E result \in vivo_sparql_query(grant_query(vivo)) : GrantStartWith(result)

\* make_dsp_dictionary reads one row.
ReadRow ==
    /\ driver = "grants"
    /\ pc = "read"
    /\ row <= Len(dsp_data)
    /\ LET res == make_dsp_row(dsp_data[row], date_dictionary,
                               datetime_interval_dictionary, next_uri, clock,
                               deptid_dictionary, sponsor_dictionary, ufid_dictionary)
       IN /\ exc_file' = exc_file \o res.exc
          /\ date_dictionary' = res.dd
          /\ datetime_interval_dictionary' = res.did
          /\ next_uri' = res.n
          /\ clock' = clock + 1
          /\ IF res.crash
             THEN /\ pc' = "aborted"
                  /\ UNCHANGED <<row, ardf, error_count, dsp_dictionary>>
             ELSE /\ pc' = pc
                  /\ row' = row + 1
                  /\ ardf' = ardf \cup res.ardf
                  /\ error_count' = IF res.any_error THEN error_count + 1 ELSE error_count
                  /\ dsp_dictionary' = AssignRow(dsp_dictionary, dsp_data[row].AwardID,
                                                 res.data, res.any_error)
    /\ UNCHANGED <<run, vivo, add_file, sub_file, log_file, action_report, batch,
                   deptid_dictionary, ufid_dictionary, dsp_data, sponsor_dictionary,
                   grant_dictionary, pvars, tvars, driver, lvars>>

\* 1 for the keys of source, plus 2 for the keys of graph.
make_action_report_swapped(source, graph) ==
    [k \in DOMAIN source \cup DOMAIN graph |->
        (IF k \in DOMAIN source THEN 2 ELSE 0) + (IF k \in DOMAIN graph THEN 1 ELSE 0)]

make_action_report(source, graph) ==
    [k \in DOMAIN source \cup DOMAIN graph |->
        (IF k \in DOMAIN source THEN 1 ELSE 0) + (IF k \in DOMAIN graph THEN 2 ELSE 0)]

\* make_dsp_dictionary returns: its RDF is written and the action report made.
GrantReport ==
    /\ driver = "grants"
    /\ pc = "read"
    /\ row > Len(dsp_data)
    /\ pc' = "process"
    /\ add_file' = add_file \cup ardf
    /\ action_report' = make_action_report(dsp_dictionary, grant_dictionary)
    /\ row' = 0
    /\ UNCHANGED <<run, vivo, clock, next_uri, sub_file, exc_file, log_file, batch,
                   deptid_dictionary, ufid_dictionary, dsp_data, dsp_dictionary,
                   error_count, ardf, sponsor_dictionary, date_dictionary,
                   datetime_interval_dictionary, grant_dictionary, pvars, tvars, driver, lvars>>

\* The main loop writes what add_grant or update_grant returned for pcn;
\* res.crash is an exception that ends the run.
WriteGrant(pcn, res, entry) ==
    /\ next_uri' = res.n
    /\ log_file' = Append(log_file, <<pcn, entry>>)
    /\ IF res.crash
       THEN pc' = "aborted" /\ UNCHANGED <<add_file, sub_file, batch>>
       ELSE /\ pc' = pc
            /\ add_file' = add_file \cup res.ardf
            /\ sub_file' = sub_file \cup res.srdf
            /\ batch' = Put(batch, pcn, [add |-> res.ardf, sub |-> res.srdf])

ProcessGrant(pcn) ==
    IF action_report[pcn] = 1
    THEN WriteGrant(pcn, add_grant(vivo, dsp_dictionary[pcn], next_uri), "Case 1: Add")
    ELSE IF action_report[pcn] = 2
    THEN /\ batch' = Put(batch, pcn, [add |-> {}, sub |-> {}])
         /\ UNCHANGED <<pc, next_uri, log_file, add_file, sub_file>>
    ELSE \E roles \in RoleOrders(vivo, grant_dictionary[pcn]) :
            WriteGrant(pcn, update_grant(vivo, grant_dictionary[pcn], dsp_dictionary[pcn],
                                         roles, next_uri), "Case 3: Update")

\* The main loop processes the next pcn of sorted(action_report.keys()).
ProcessPcn ==
    /\ driver = "grants"
    /\ pc = "process"
    /\ row < Len(Sorted(DOMAIN action_report))
    /\ ProcessGrant(Sorted(DOMAIN action_report)[row + 1])
    /\ row' = row + 1
    /\ UNCHANGED <<run, vivo, clock, exc_file, action_report, deptid_dictionary,
                   ufid_dictionary, dsp_data, dsp_dictionary, error_count, ardf,
                   sponsor_dictionary, date_dictionary, datetime_interval_dictionary,
                   grant_dictionary, pvars, tvars, driver, lvars>>

\* The footers are written and the files closed.
GrantFinish ==
    /\ driver = "grants"
    /\ pc = "process"
    /\ row = Len(Sorted(DOMAIN action_report))
    /\ pc' = "done"
    /\ UNCHANGED <<run, vivo, clock, next_uri, add_file, sub_file, exc_file, log_file,
                   action_report, batch, deptid_dictionary, ufid_dictionary, row, gvars,
                   pvars, tvars, driver, lvars>>

\* VIVO takes the subtractions and the additions of the run, and the driver
\* is run again on the same DSP file.
GrantRerun ==
    /\ driver = "grants"
    /\ pc = "done"
    /\ run < MaxRuns
    /\ vivo' = (vivo \ sub_file) \cup add_file
    /\ run' = run + 1
    /\ pc' = "start"
    /\ UNCHANGED <<clock, next_uri, add_file, sub_file, exc_file, log_file,
                   action_report, batch, deptid_dictionary, ufid_dictionary, row, gvars,
                   pvars, tvars, driver, lvars>>

GrantNext == GrantStart \/ ReadRow \/ GrantReport \/ ProcessPcn \/ GrantFinish \/ GrantRerun

\* Grant ingest on files of valid rows against the variants of the grant in VIVO.
SpecGrant == InitGrant(Files(UpdateRows), GrantGraphs) /\ [][GrantNext]_vars

GrantOnce == GrantStart \/ ReadRow \/ GrantReport \/ ProcessPcn \/ GrantFinish

\* One run of grant ingest on files of rows with faults.
SpecValidate ==
    InitGrant(Files(FaultRows), {BaseVivo \cup VivoGrant("Research Study", None)})
    /\ [][GrantOnce]_vars

\* Valid rows of contract p1 and p2 whose investigator lists name a person
\* once, or twice.
RoleRows ==
    {DspRow("p1", "RES STDY,", "SA1", "100", "50", "d1", "s1", "01/01/2014", "06/30/2015",
            pi, <<"u2">>, inv) :
        pi \in {<<"u1">>, <<"u1", "u1">>}, inv \in {<<>>, <<"u2", "u2">>}}
    \cup {DspRow("p1", "RES STDY,", "SA1", "100", "50", "d1", "s1", "01/01/2014",
                 "06/30/2015", <<"u2">>, <<>>, <<"u1">>),
          DspRow("p2", "CLIN TRLS", "SA2", "250", "100", "d1", "s1", "01/01/2014",
                 "06/30/2015", <<"u2">>, <<"u1", "u1">>, <<>>)}

\* The grant of contract p1 with per1 as its PI and as an investigator, and
\* per2 as its Co-PI.
VivoGrantTwoRoles ==
    VivoGrant("Research Study", None)
    \cup {<<"g1", "vivo:contributingRole", "r3">>,
          <<"r3", "vivo:roleContributesTo", "g1">>,
          <<"r3", "vivo:investigatorRoleOf", "per1">>}

RoleTypeGraphs ==
    {BaseVivo, BaseVivo \cup VivoGrant("Research Study", None),
     BaseVivo \cup VivoGrantTwoRoles}

\* Valid rows of contract p1 and p2 whose investigator lists name a person
\* once, under one type or under two.
RoleTypeRows ==
    {DspRow("p1", "RES STDY,", "SA1", "100", "50", "d1", "s1", "01/01/2014", "06/30/2015",
            pi, <<"u2">>, inv) :
        pi \in {<<"u1">>, <<"u2">>}, inv \in {<<>>, <<"u1">>}}
    \cup {DspRow("p2", "CLIN TRLS", "SA2", "250", "100", "d1", "s1", "01/01/2014",
                 "06/30/2015", <<"u2">>, <<"u1">>, <<>>)}

\* One run of grant ingest on these rows.
SpecRoleTypes == InitGrant(Files(RoleTypeRows), RoleTypeGraphs) /\ [][GrantOnce]_vars

\* One run of grant ingest on files of valid rows, for the roles of a grant.
SpecRoles == InitGrant(Files(RoleRows), GrantGraphs) /\ [][GrantOnce]_vars

----------------------------------------------------------------------------
(* Properties of grant ingest *)

Range(s) == {s[i] : i \in DOMAIN s}

\* The UFIDs of a list that no person of VIVO has.
NotInVivo(ufid_list) ==
    {ufid_list[i] : i \in DOMAIN ufid_list} \ {t[3] : t \in {x \in vivo : x[2] = "ufVivo:ufid"}}

\* The exception records a row deserves, stated from the row and from VIVO.
RowFaults(r) ==
    LET pcn == r.AwardID
        total == Float(r.TotalAwarded)
        direct == Float(r.DirectCosts)
    IN {<<pcn, "Total Award Amount", r.TotalAwarded, "invalid number">> : x \in {1} \ {IF total.ok THEN 1 ELSE 0}}
       \cup {<<pcn, "Grant Direct Costs", r.DirectCosts, "invalid number">> : x \in {1} \ {IF direct.ok THEN 1 ELSE 0}}
       \cup {<<pcn, "Total Award Amount", r.TotalAwarded, "must not be negative">> :
                x \in {y \in {1} : total.ok /\ total.v < 0}}
       \cup {<<pcn, "Grant Direct Costs", r.DirectCosts, "must not be negative">> :
                x \in {y \in {1} : direct.ok /\ direct.v < 0}}
       \cup {<<pcn, "Total Award Amount", r.TotalAwarded,
               "must not be less than Grant Direct Costs", r.DirectCosts>> :
                x \in {y \in {1} : total.ok /\ direct.ok /\ total.v < direct.v}}
       \cup {<<pcn, "DeptID", r.DeptID, "not found in VIVO">> :
                x \in {y \in {1} : Subjects(vivo, "ufVivo:deptID", r.DeptID) = {}}}
       \cup {<<pcn, "Sponsor", r.SponsorID, "not found in VIVO">> :
                x \in {y \in {1} : Subjects(vivo, "ufVivo:sponsorID", r.SponsorID) = {}}}
       \cup {<<pcn, "Start date", r.StartDate, "invalid">> :
                x \in {y \in {1} : strptime(r.StartDate) = 0}}
       \cup {<<pcn, "End date", r.EndDate, "invalid">> :
                x \in {y \in {1} : strptime(r.EndDate) = 0}}
       \cup {<<pcn, "End date", r.EndDate, "before start date", r.StartDate>> :
                x \in {y \in {1} : /\ strptime(r.StartDate) # 0 /\ strptime(r.EndDate) # 0
                                   /\ strptime(r.EndDate) < strptime(r.StartDate)}}
       \cup {<<pcn, "PI", u, "not found in VIVO">> : u \in NotInVivo(r.PI)}
       \cup {<<pcn, "CoPI", u, "not found in VIVO">> : u \in NotInVivo(r.CoPI)}
       \cup {<<pcn, "Inv", u, "not found in VIVO">> : u \in NotInVivo(r.Inv)}

RowValid(r) == RowFaults(r) = {}

MalformedDate(r) == strptime(r.StartDate) = 0 \/ strptime(r.EndDate) = 0

\* The rows make_dsp_dictionary has taken up so far.
RowsRead ==
    IF pc \in {"process", "done"} THEN 1..Len(dsp_data)
    ELSE IF pc = "aborted" /\ row <= Len(dsp_data) /\ action_report = <<>> THEN 1..row
    ELSE IF pc = "read" THEN 1..(row - 1)
    ELSE {}

InMainLoop == pc \in {"process", "done"} \/ (pc = "aborted" /\ action_report # <<>>)

\* C5: add_grant and update_grant are invoked only for a contract number with
\* a row in the DSP file that passed every validation check.
C5_OnlyValidatedRowsProcessed ==
    \A i \in DOMAIN log_file :
        \E j \in DOMAIN dsp_data :
            /\ dsp_data[j].AwardID = log_file[i][1]
            /\ RowValid(dsp_data[j])

\* A file with an invalid row and a valid one has been processed, and the
\* grant of the valid row was added or updated.
C5_Witness ==
    /\ pc = "done"
    /\ log_file # <<>>
    /\ \E j \in DOMAIN dsp_data : ~RowValid(dsp_data[j])

\* C6: when no row of the file is valid, the run writes no statement to the
\* add file and none to the sub file.
C6_SkippedRowWritesNothing ==
    (pc = "done" /\ \A j \in DOMAIN dsp_data : ~RowValid(dsp_data[j]))
        => (add_file = {} /\ sub_file = {})

\* C7: a run is never aborted at a row with a malformed start or end date.
C7_MalformedDateDoesNotAbort ==
    ~(/\ pc = "aborted"
      /\ action_report = <<>>
      /\ row \in DOMAIN dsp_data
      /\ MalformedDate(dsp_data[row]))

\* C9: every failing validation of a row taken up is in the exception file,
\* and the error count is the number of invalid rows taken up.
C9_EveryFailureRecorded ==
    /\ \A j \in RowsRead : RowFaults(dsp_data[j]) \subseteq Range(exc_file)
    /\ (pc \in {"process", "done", "aborted"})
          => error_count = Cardinality({j \in RowsRead : ~RowValid(dsp_data[j])})

\* The statements of S with uri as subject or object.
Mentioned(S, uri) == {t \in S : t[1] = uri \/ t[3] = uri}

\* update_grant returned for pcn, called by add_grant or by the main loop.
GrantUpdated(pcn) == pcn \in DOMAIN batch /\ action_report[pcn] \in {1, 3}

\* The roles of investigator type it that person uri has in the grant of pcn
\* in VIVO.
GraphRoles(pcn, it, uri) ==
    IF action_report[pcn] = 1 THEN {}
    ELSE {r \in Objects(vivo, grant_dictionary[pcn], "vivo:contributingRole") :
             <<r, it[3], uri>> \in vivo}

\* The roles of type it for person uri that the RDF written for pcn adds.
NewRoles(pcn, it, uri) ==
    {t[1] : t \in {u \in batch[pcn].add : u[2] = it[3] /\ u[3] = uri}}

\* The people the DSP list, or the graph list, of type it names for pcn.
Investigators(pcn, it) ==
    Range(dsp_dictionary[pcn][it[1]])
    \cup {t[3] : t \in {u \in vivo : u[2] = it[3] /\ GraphRoles(pcn, it, u[3]) # {}}}

\* The retraction written for pcn touches role.
RoleRetracted(pcn, role) == Mentioned(batch[pcn].sub, role) # {}

\* What the RDF written for pcn does for person uri as investigator of type
\* it is what the lists ask for.
RoleReconciled(pcn, it, uri) ==
    IF uri \in Range(dsp_dictionary[pcn][it[1]])
    THEN IF GraphRoles(pcn, it, uri) # {}
         THEN /\ NewRoles(pcn, it, uri) = {}
              /\ \A r \in GraphRoles(pcn, it, uri) : ~RoleRetracted(pcn, r)
         ELSE Cardinality(NewRoles(pcn, it, uri)) = 1
    ELSE /\ NewRoles(pcn, it, uri) = {}
         /\ \A r \in GraphRoles(pcn, it, uri) :
               Mentioned(vivo, r) \subseteq batch[pcn].sub

\* C16: for each investigator type and each person of the DSP list or the
\* graph list of the type, a person of both lists gets no statement, a person
\* of the graph list alone has the role retracted, a person of the DSP list
\* alone gets exactly one new role, whatever the lists are; update_grant
\* returns for every grant.
C16_RolesReconciled ==
    driver = "grants" =>
        /\ ~(pc = "aborted" /\ action_report # <<>>)
        /\ InMainLoop =>
              \A pcn \in DOMAIN action_report :
                  GrantUpdated(pcn) =>
                      \A i \in DOMAIN investigator_types :
                          \A uri \in Investigators(pcn, investigator_types[i]) :
                              RoleReconciled(pcn, investigator_types[i], uri)

\* C28: when a person is in the graph list of an investigator type of a
\* grant and not in the DSP list of the type, update_grant retracts the role
\* of that type the person has in the grant, and leaves alone the role of
\* another type the person has in the grant and keeps in DSP.
C28_RetractsRoleOfType ==
    (driver = "grants" /\ InMainLoop) =>
        \A pcn \in DOMAIN action_report :
            GrantUpdated(pcn) =>
                \A i, j \in DOMAIN investigator_types :
                    \A uri \in Investigators(pcn, investigator_types[i]) :
                        (/\ GraphRoles(pcn, investigator_types[i], uri) # {}
                         /\ uri \notin Range(dsp_dictionary[pcn][investigator_types[i][1]]))
                        => /\ \A r \in GraphRoles(pcn, investigator_types[i], uri) :
                                 RoleRetracted(pcn, r)
                           /\ (j # i /\ uri \in Range(dsp_dictionary[pcn][investigator_types[j][1]]))
                                 => \A r \in GraphRoles(pcn, investigator_types[j], uri) :
                                       ~RoleRetracted(pcn, r)

\* The key of the datetime interval of the dates of row r, both well formed.
IntervalKey(r) ==
    date_dictionary[strptime(r.StartDate)] \o date_dictionary[strptime(r.EndDate)]

\* The rows read so far that have a start date and an end date.
DatedRows == {i \in RowsRead : ~MalformedDate(dsp_data[i])}

\* The interval entities the run has made so far.
NewIntervals == {t[1] : t \in {u \in ardf : u[2] = "rdf:type" /\ u[3] = "vivo:DateTimeInterval"}}

\* C21: in a run of grant ingest every row with both dates resolves to the
\* interval entity of its pair of dates, the same for the same pair and
\* another for another pair, and the run makes exactly one entity for each
\* pair the graph had no interval of, and none for a pair it had one of.
C21_OneIntervalPerPair ==
    (driver = "grants" /\ pc \in {"read", "process", "done"}) =>
        /\ \A i \in DatedRows : IntervalKey(dsp_data[i]) \in DOMAIN datetime_interval_dictionary
        /\ \A pcn \in DOMAIN dsp_dictionary :
              dsp_dictionary[pcn]["dti_uri"]
                 = datetime_interval_dictionary[IntervalKey(dsp_dictionary[pcn])]
        /\ \A k1, k2 \in DOMAIN datetime_interval_dictionary :
              datetime_interval_dictionary[k1] = datetime_interval_dictionary[k2] => k1 = k2
        /\ \A k \in DOMAIN datetime_interval_dictionary :
              (k \notin DOMAIN make_datetime_interval_dictionary(vivo))
                 <=> datetime_interval_dictionary[k] \in NewIntervals
        /\ \A uri \in NewIntervals :
              \E k \in DOMAIN datetime_interval_dictionary : datetime_interval_dictionary[k] = uri

\* Two rows with the same pair of dates, one the graph has no interval of,
\* have been read, and one interval was made for them.
C21_Witness ==
    /\ driver = "grants" /\ pc = "process"
    /\ \E i, j \in DatedRows :
          /\ i # j
          /\ IntervalKey(dsp_data[i]) = IntervalKey(dsp_data[j])
          /\ datetime_interval_dictionary[IntervalKey(dsp_data[i])] \in NewIntervals
    /\ Cardinality(NewIntervals) = 1

\* The rows of the file with the contract number pcn.
RowsOf(pcn) == {i \in DOMAIN dsp_data : dsp_data[i].AwardID = pcn}

\* The entry of dsp_dictionary for pcn was made from row i of the file.
EntryIsRow(pcn, i) == \A f \in DOMAIN dsp_data[i] : dsp_dictionary[pcn][f] = dsp_data[i][f]

\* C19: once the file is read, the entry dsp_dictionary holds for a contract
\* number is the last row of the file with that number, valid or not.
C19_LastRowWins ==
    (driver = "grants" /\ InMainLoop) =>
        \A pcn \in DOMAIN dsp_dictionary :
            \A i \in RowsOf(pcn) : (\A j \in RowsOf(pcn) : j <= i) => EntryIsRow(pcn, i)

\* C3: in the second run on the same DSP file, with VIVO holding the result
\* of the first, the main loop writes nothing for any contract number.
C3_GrantIngestIdempotent ==
    (run = 2 /\ InMainLoop) =>
        \A k \in DOMAIN batch : batch[k].add = {} /\ batch[k].sub = {}

----------------------------------------------------------------------------
(* person-ingest.py: improving the source data *)

\* position_dict.get(salary_plan, None), on the plans of the model.
make_position_type(salary_plan) ==
    CASE salary_plan = "FA09" -> "faculty"
      [] salary_plan = "CPFI" -> "postdoc"
      [] salary_plan = "TA12" -> "non-academic"
      [] salary_plan = "OPSN" -> None
      [] OTHER -> None

\* make_position_title expands the abbreviations of an HR job title.
make_position_title(s) ==
    CASE s = "PROF" -> "Professor"
      [] s = "ASST PROF" -> "Assistant Professor"
      [] s = "ACADEMIC LUMP SUM PAYMENT" -> "Academic Lump Sum Payment"
      [] s = "" -> ""
      [] OTHER -> s

\* datetime.strptime(s, "%Y-%m-%d").isoformat()
hr_isoformat(s) == s \o "T00:00:00"

\* s.upper() == s
IsUpper(s) == s \in {"", "PROF", "ASST PROF", "ACADEMIC LUMP SUM PAYMENT"}

\* vt.repair_phone_number
repair_phone_number(s) ==
    CASE s = "3525551234" -> "(352) 555-1234"
      [] s = "352 555 9999" -> "(352) 555-9999"
      [] OTHER -> s

\* The string of a sequence of characters or words.
RECURSIVE Join(_)
Join(s) == IF s = <<>> THEN "" ELSE Head(s) \o Join(Tail(s))

\* The characters of the e-mail strings of the model.
Chars(str) ==
    CASE str = "" -> <<>>
      [] str = "none" -> <<"n", "o", "n", "e">>
      [] str = "jsmith@ufl.edu" ->
            <<"j", "s", "m", "i", "t", "h", "@", "u", "f", "l", ".", "e", "d", "u">>
      [] str = " alee@ufl.edu " ->
            <<" ", "a", "l", "e", "e", "@", "u", "f", "l", ".", "e", "d", "u", " ">>

\* \w, as far as the strings of the model go: the letters and the underscore.
Word ==
    {"a", "b", "c", "d", "e", "f", "g", "h", "i", "j", "k", "l", "m", "n", "o",
     "p", "q", "r", "s", "t", "u", "v", "w", "x", "y", "z", "_"}

\* The matching of a pattern from a set P of positions of str: the positions
\* the match can go on from, after one or more characters of a class, after
\* none or more of them, and after the character c.
OneOrMore(str, P, class) ==
    {q \in 1..(Len(str) + 1) :
        \E p \in P : p < q /\ \A j \in p..(q - 1) : str[j] \in class}

ZeroOrMore(str, P, class) == P \cup OneOrMore(str, P, class)

Literal(str, P, c) == {p + 1 : p \in {q \in P : q <= Len(str) /\ str[q] = c}}

\* (\w+\.*)* from the positions P.
RECURSIVE Group(_, _)
Group(str, P) ==
    LET Q == P \cup ZeroOrMore(str, OneOrMore(str, P, Word), {"."})
    IN IF Q = P THEN P ELSE Group(str, Q)

\* exp, \w+\.*\w+@\w+\.(\w+\.*)*\w+, matched from position i of str: the
\* positions a match can end before.
exp_match(str, i) ==
    LET local == OneOrMore(str, ZeroOrMore(str, OneOrMore(str, {i}, Word), {"."}), Word)
        host == OneOrMore(str, Literal(str, local, "@"), Word)
    IN OneOrMore(str, Group(str, Literal(str, host, ".")), Word)

\* exp.search(str): the match at the first position that has one, which the
\* greedy quantifiers make the longest match at that position.
exp_search(str) ==
    LET starts == {i \in DOMAIN str : exp_match(str, i) # {}}
    IN IF starts = {} THEN [found |-> FALSE, group |-> <<>>]
       ELSE LET i == CHOOSE k \in starts : \A k2 \in starts : k <= k2
                j == CHOOSE k \in exp_match(str, i) : \A k2 \in exp_match(str, i) : k >= k2
            IN [found |-> TRUE, group |-> SubSeq(str, i, j - 1)]

\* person-ingest.fix_email, on the characters of the string.
fix_email(email) ==
    LET found == exp_search(email)
    IN IF ~found.found THEN <<>> ELSE found.group

\* vivopeople.repair_email, its copy.
repair_email(email) ==
    LET found == exp_search(email)
    IN IF ~found.found THEN <<>> ELSE found.group

\* DISPLAY_NAME.title(), with a space put after a comma that has none.
improve_display_name(s) ==
    CASE s = "SMITH,JOHN" -> "Smith, John"
      [] s = "Smith, John" -> "Smith, John"
      [] s = "JONES,ANN" -> "Jones, Ann"
      [] OTHER -> s

improve_contact_data(data) ==
    [preferred_title |-> IF IsUpper(data.WORKINGTITLE)
                         THEN make_position_title(data.WORKINGTITLE)
                         ELSE data.WORKINGTITLE,
     fax_number |-> repair_phone_number(data.UF_BUSINESS_FAX),
     primary_phone_number |-> repair_phone_number(data.UF_BUSINESS_PHONE),
     display_name |-> improve_display_name(data.DISPLAY_NAME),
     first_name |-> data.FIRST_NAME,
     last_name |-> data.LAST_NAME,
     middle_name |-> data.MIDDLE_NAME,
     name_prefix |-> data.NAME_PREFIX,
     name_suffix |-> data.NAME_SUFFIX,
     gatorlink |-> data.GATORLINK,
     primary_email |-> Join(fix_email(Chars(data.UF_BUSINESS_EMAIL))),
     UFID |-> data.UFID]
    @@ (IF data.HOME_DEPT # "" THEN [home_deptid |-> data.HOME_DEPT]
        ELSE [HOME_DEPT |-> data.HOME_DEPT])

\* A later row of a UFID replaces an earlier one.
RECURSIVE make_contact_dictionary(_, _)
make_contact_dictionary(data, report) ==
    IF data = <<>> THEN <<>>
    ELSE LET d == make_contact_dictionary(SubSeq(data, 1, Len(data) - 1), report)
             r == data[Len(data)]
         IN IF r.UFID \in DOMAIN report THEN Put(d, r.UFID, improve_contact_data(r)) ELSE d

RECURSIVE make_privacy_dictionary(_, _)
make_privacy_dictionary(data, report) ==
    IF data = <<>> THEN <<>>
    ELSE LET d == make_privacy_dictionary(SubSeq(data, 1, Len(data) - 1), report)
             r == data[Len(data)]
         IN IF r.UFID \in DOMAIN report
            THEN Put(d, r.UFID, [uf_security_flag |-> r.UF_SECURITY_FLG,
                                 uf_protect_flag |-> r.UF_PROTECT_FLG,
                                 uf_publish_flag |-> r.UF_PUBLISH_FLG])
            ELSE d

RECURSIVE make_hr_dictionary(_)
make_hr_dictionary(data) ==
    IF data = <<>> THEN <<>>
    ELSE LET d == make_hr_dictionary(SubSeq(data, 1, Len(data) - 1))
             r == data[Len(data)]
         IN Put(d, r.UFID,
                [position_type |-> make_position_type(r.SAL_ADMIN_PLAN),
                 position_label |-> make_position_title(r.JOBCODE_DESCRIPTION),
                 hr_title |-> r.JOBCODE_DESCRIPTION,
                 START_DATE |-> IF r.START_DATE # "" THEN hr_isoformat(r.START_DATE) ELSE "",
                 END_DATE |-> IF r.END_DATE # "" THEN hr_isoformat(r.END_DATE) ELSE ""]
                @@ r)

\* A pattern of the deptid exceptions is a regular expression; the patterns
\* of the model are whole department identifiers.
ok_deptid(deptid, patterns) == deptid \notin patterns

ok_ufid(ufid, exceptions) == ufid \notin exceptions

ok_position(data) == data["HR_POSITION"] # "0"

ok_position_title(position_title) ==
    position_title \notin {"Academic Lump Sum Payment", "Ops Lump Sum Payment"}

\* ok_privacy, and whether it wrote "not found in privacy data".
ok_privacy(ufid, privacy) ==
    IF ufid \in DOMAIN privacy
    THEN [ok |-> ~(privacy[ufid].uf_security_flag = "Y" \/ privacy[ufid].uf_protect_flag = "Y"),
          exc |-> <<>>]
    ELSE [ok |-> FALSE, exc |-> << <<ufid, "not found in privacy data">> >>]

----------------------------------------------------------------------------
(* What person ingest reads of a person in VIVO *)

ContactProperties ==
    [first_name |-> "foaf:firstName",
     last_name |-> "foaf:lastName",
     middle_name |-> "vivo:middleName",
     name_prefix |-> "bibo:prefixName",
     name_suffix |-> "bibo:suffixName",
     display_name |-> "rdfs:label",
     gatorlink |-> "ufVivo:gatorlink",
     preferred_title |-> "vivo:preferredTitle",
     primary_email |-> "vivo:primaryEmail",
     primary_phone_number |-> "vivo:primaryPhoneNumber",
     fax_number |-> "vivo:faxNumber"]

One(S) == CHOOSE x \in S : TRUE

\* vt.get_position(position_uri): None stands for a key the position lacks.
get_position(G, position_uri) ==
    LET orgs == Objects(G, position_uri, "vivo:positionInOrganization")
        titles == Objects(G, position_uri, "vivo:hrJobTitle")
        dtis == Objects(G, position_uri, "vivo:dateTimeInterval")
        ends == IF dtis = {} THEN {} ELSE Objects(G, One(dtis), "vivo:end")
    IN [position_uri |-> position_uri,
        org_uri |-> IF orgs = {} THEN None ELSE One(orgs),
        hr_title |-> IF titles = {} THEN None ELSE One(titles),
        datetime_interval |-> IF dtis = {} THEN None ELSE One(dtis),
        end_date |-> IF ends = {} THEN None ELSE One(ends)]

\* vt.get_person(person_uri): the keys update_contact and former_person read.
get_person(G, person_uri) ==
    [k \in {x \in DOMAIN ContactProperties :
               Objects(G, person_uri, ContactProperties[x]) # {}} |->
        One(Objects(G, person_uri, ContactProperties[k]))]
    @@ (IF Objects(G, person_uri, "ufVivo:homeDept") # {}
        THEN [home_dept_uri |-> One(Objects(G, person_uri, "ufVivo:homeDept"))]
        ELSE <<>>)
    @@ [person_uri |-> person_uri]

\* person['positions'] of vt.get_person(person_uri, get_positions=True)
get_positions(G, person_uri) ==
    LET uris == SetToSeq(Objects(G, person_uri, "vivo:personInPosition"))
    IN [i \in DOMAIN uris |-> get_position(G, uris[i])]

----------------------------------------------------------------------------
(* person-ingest.py: the RDF of a person and of a position *)

\* vt.make_datetime_rdf(iso, precision=...)
make_datetime_precision_rdf(uri, iso, precision) ==
    {<<uri, "rdf:type", "vivo:DateTimeValue">>,
     <<uri, "vivo:dateTime", iso>>,
     <<uri, "vivo:dateTimePrecision", precision>>}

\* vt.make_datetime_interval_rdf(start_date, end_date): date values for the
\* dates given, and an interval of them.
make_datetime_interval_rdf(start_date, end_date, n) ==
    LET has_start == start_date \notin {None, ""}
        has_end == end_date \notin {None, ""}
        start_uri == IF has_start THEN Uri(n) ELSE None
        n1 == IF has_start THEN n + 1 ELSE n
        end_uri == IF has_end THEN Uri(n1) ELSE None
        n2 == IF has_end THEN n1 + 1 ELSE n1
    IN [rdf |-> (IF has_start THEN make_datetime_rdf(start_uri, start_date) ELSE {})
                \cup (IF has_end THEN make_datetime_rdf(end_uri, end_date) ELSE {})
                \cup make_dt_interval_rdf(Uri(n2), start_uri, end_uri),
        uri |-> Uri(n2),
        n |-> n2 + 1]

PersonTypes ==
    [faculty |-> "vivo:FacultyMember",
     postdoc |-> "vivo:Postdoc",
     non_academic |-> "vivo:NonAcademic"]

PositionTypes ==
    [faculty |-> {"vivo:FacultyPosition"},
     postdoc |-> {"vivo:FacultyPosition", "ufVivo:PostDocPosition"},
     non_academic |-> {"vivo:Non-AcademicPosition"}]

TypeKey(position_type) == IF position_type = "non-academic" THEN "non_academic" ELSE position_type

PeopleHarvestedBy == "Python People version 1.0"

\* The statements of the position at position_uri, with the interval dti that
\* make_datetime_interval_rdf returned.
position_rdf(person_uri, org_uri, title, position_label, position_type, dti, position_uri, now) ==
    [rdf |-> dti.rdf
             \cup {<<person_uri, "vivo:personInPosition", position_uri>>,
                   <<org_uri, "vivo:organizationForPosition", position_uri>>,
                   <<position_uri, "rdf:type", "owl:Thing">>,
                   <<position_uri, "rdf:type", "vivo:Position">>,
                   <<position_uri, "vivo:dateTimeInterval", dti.uri>>,
                   <<position_uri, "vivo:positionForPerson", person_uri>>,
                   <<position_uri, "vivo:positionInOrganization", org_uri>>,
                   <<position_uri, "vivo:hrJobTitle", title>>,
                   <<position_uri, "rdfs:label", position_label>>,
                   <<position_uri, "ufVivo:harvestedBy", PeopleHarvestedBy>>,
                   <<position_uri, "ufVivo:dateHarvested", Now(now)>>}
             \cup (IF TypeKey(position_type) \in DOMAIN PositionTypes
                   THEN {<<position_uri, "rdf:type", t>> :
                             t \in PositionTypes[TypeKey(position_type)]}
                   ELSE {}),
     position_uri |-> position_uri,
     n |-> dti.n + 1]

\* The interval's URIs are taken first, then the position's.
position_of_interval(person_uri, org_uri, title, position_label, position_type, dti, now) ==
    position_rdf(person_uri, org_uri, title, position_label, position_type,
                 dti, Uri(dti.n), now)

make_position_rdf(person_uri, org_uri, title, position_label, position_type, start_date, end_date, n, now) ==
    position_of_interval(person_uri, org_uri, title, position_label, position_type,
                         make_datetime_interval_rdf(start_date, end_date, n), now)

add_position(data, n, now) ==
    make_position_rdf(data["person_uri"], data["org_uri"], data["hr_title"],
                      data["position_label"], data["position_type"],
                      data["START_DATE"], data["END_DATE"], n, now)

\* The statement of a person's data property, when the value is not empty.
PersonValue(uri, data, key, predicate) ==
    IF Get(data, key, "") # "" THEN {<<uri, predicate, data[key]>>} ELSE {}

add_person(data, n, now) ==
    LET uri == Uri(n)
        position_type == IF data["position_type"] = None THEN "" ELSE data["position_type"]
    IN [rdf |-> {<<uri, "rdf:type", "owl:Thing">>,
                 <<uri, "rdf:type", "foaf:Person">>,
                 <<uri, "rdf:type", "ufVivo:UFEntity">>,
                 <<uri, "rdf:type", "ufVivo:UFCurrentEntity">>,
                 <<uri, "ufVivo:ufid", data["UFID"]>>,
                 <<uri, "ufVivo:harvestedBy", PeopleHarvestedBy>>,
                 <<uri, "ufVivo:dateHarvested", Now(now)>>}
                \cup (IF TypeKey(position_type) \in DOMAIN PersonTypes
                      THEN {<<uri, "rdf:type", PersonTypes[TypeKey(position_type)]>>}
                      ELSE {})
                \cup PersonValue(uri, data, "display_name", "rdfs:label")
                \cup PersonValue(uri, data, "last_name", "foaf:lastName")
                \cup PersonValue(uri, data, "first_name", "foaf:firstName")
                \cup PersonValue(uri, data, "middle_name", "vivo:middleName")
                \cup PersonValue(uri, data, "prefix_name", "bibo:prefixName")
                \cup PersonValue(uri, data, "suffix_name", "bibo:suffixName")
                \cup PersonValue(uri, data, "preferred_title", "vivo:preferredTitle")
                \cup PersonValue(uri, data, "gatorlink", "ufVivo:gatorlink")
                \cup PersonValue(uri, data, "primary_email", "vivo:primaryEmail")
                \cup PersonValue(uri, data, "primary_phone_number", "vivo:primaryPhoneNumber")
                \cup PersonValue(uri, data, "fax_number", "vivo:faxNumber")
                \cup PersonValue(uri, data, "duri", "ufVivo:homeDept"),
        uri |-> uri,
        n |-> n + 1]

\* What update_position returns with the RDF pos of a new position.
position_added(pos) == [ardf |-> pos.rdf, srdf |-> {}, raised |-> FALSE, n |-> pos.n]

\* An update_position that adds the HR position without looking at the
\* positions the person has.
update_position_unmatched(person_uri, org_uri, positions, hr_data, patterns, n, now) ==
    position_added(add_position([org_uri |-> org_uri, person_uri |-> person_uri]
                                @@ hr_data, n, now))

\* update_position with the organization of the DEPTID and the person's
\* positions in VIVO.
update_position_at(person_uri, org_uri, positions, hr_data, patterns, n, now) ==
    IF /\ ~\E i \in DOMAIN positions :
              /\ positions[i].org_uri = org_uri
              /\ positions[i].hr_title = hr_data["hr_title"]
       /\ ok_position_title(hr_data["position_label"])
       /\ ok_position(hr_data)
       /\ ok_deptid(hr_data["DEPTID"], patterns)
    THEN position_added(add_position([org_uri |-> org_uri, person_uri |-> person_uri]
                                     @@ hr_data, n, now))
    ELSE [ardf |-> {}, srdf |-> {}, raised |-> FALSE, n |-> n]

\* raised is DeptIDNotInVIVOException.
update_position(G, person_uri, hr_data, deptids, patterns, n, now) ==
    IF hr_data["DEPTID"] \notin DOMAIN deptids
    THEN [ardf |-> {}, srdf |-> {}, raised |-> TRUE, n |-> n]
    ELSE update_position_at(person_uri, deptids[hr_data["DEPTID"]],
                            get_positions(G, person_uri), hr_data, patterns, n, now)

\* The interval with only an end, attached to a position that had none.
interval_for_position(position_uri, dti) ==
    [ardf |-> dti.rdf \cup {<<position_uri, "vivo:dateTimeInterval", dti.uri>>},
     n |-> dti.n]

end_date_for_position(position, now, datetime_precision, n) ==
    IF position.datetime_interval # None
    THEN [ardf |-> make_datetime_precision_rdf(Uri(n), Now(now), datetime_precision)
                   \cup {<<position.datetime_interval, "vivo:end", Uri(n)>>},
          n |-> n + 1]
    ELSE interval_for_position(position.position_uri,
                               make_datetime_interval_rdf(None, Now(now), n))

assert_end_date_for_position(G, position_uri, now, datetime_precision, n) ==
    end_date_for_position(get_position(G, position_uri), now, datetime_precision, n)

\* The RDF of one position's end date, then that of the positions after it.
closed_with(one, rest) == [add |-> one.ardf \cup rest.add, n |-> rest.n]

RECURSIVE close_positions(_, _, _, _)
close_rest(G, positions, now, one) ==
    closed_with(one, close_positions(G, positions, now, one.n))

\* The end dates former_person asserts for the positions without one.
close_positions(G, positions, now, n) ==
    IF positions = <<>> THEN [add |-> {}, n |-> n]
    ELSE IF Head(positions).end_date # None THEN close_positions(G, Tail(positions), now, n)
    ELSE close_rest(G, Tail(positions), now,
                    assert_end_date_for_position(G, Head(positions).position_uri, now,
                                                 "vivo:yearPrecision", n))

\* former_person with the person get_person returned and the end dates
\* asserted for the person's positions.
former_person_of(uri, person, closed) ==
    [add |-> closed.add,
     sub |-> {<<uri, "rdf:type", "ufVivo:UFCurrentEntity">>}
             \cup PersonValue(uri, person, "primary_phone_number", "vivo:primaryPhoneNumber")
             \cup PersonValue(uri, person, "primary_email", "vivo:primaryEmail")
             \cup PersonValue(uri, person, "fax_number", "vivo:faxNumber")
             \cup PersonValue(uri, person, "preferred_title", "vivo:preferredTitle"),
     n |-> closed.n]

\* A former_person that retracts the person altogether.
former_person_removed(G, uri, now, n) ==
    [add |-> {}, sub |-> remove_uri(G, uri), n |-> n]

former_person(G, uri, now, n) ==
    former_person_of(uri, get_person(G, uri),
                     close_positions(G, get_positions(G, uri), now, n))

current_person(uri) ==
    [add |-> {<<uri, "rdf:type", "ufVivo:UFEntity">>,
              <<uri, "rdf:type", "ufVivo:UFCurrentEntity">>},
     sub |-> {}]

\* A pass that takes the source value for the value in VIVO.
UpdateContactPropertySwapped(person_uri, person, contact_data, k) ==
    update_data_property(person_uri, ContactProperties[k],
                         Normal(contact_data, k), Normal(person, k))

\* One pass of the loop of update_contact over the properties.
UpdateContactProperty(person_uri, person, contact_data, k) ==
    update_data_property(person_uri, ContactProperties[k],
                         Normal(person, k), Normal(contact_data, k))

\* The RDF of the home department joins that of the properties.
contact_with_home(adds, subs, home) ==
    [ardf |-> adds \cup home.add, srdf |-> subs \cup home.sub,
     raised |-> FALSE, deptid |-> None]

\* update_contact with the person get_person returned.
update_contact_of(person_uri, person, adds, subs, contact_data, deptids) ==
    IF "home_deptid" \notin DOMAIN contact_data
    THEN [ardf |-> adds, srdf |-> subs, raised |-> FALSE, deptid |-> None]
    ELSE IF contact_data["home_deptid"] \notin DOMAIN deptids
    THEN [ardf |-> {}, srdf |-> {}, raised |-> TRUE, deptid |-> contact_data["home_deptid"]]
    ELSE contact_with_home(adds, subs,
             update_resource_property(person["person_uri"], "ufVivo:homeDept",
                                      Get(person, "home_dept_uri", None),
                                      deptids[contact_data["home_deptid"]]))

update_contact_person(person_uri, person, contact_data, deptids) ==
    update_contact_of(person_uri, person,
        UNION {UpdateContactProperty(person_uri, person, contact_data, k).add :
                  k \in DOMAIN ContactProperties},
        UNION {UpdateContactProperty(person_uri, person, contact_data, k).sub :
                  k \in DOMAIN ContactProperties},
        contact_data, deptids)

\* raised is DeptIDNotInVIVOException, with the deptid it carries.
update_contact(G, person_uri, contact_data, deptids) ==
    update_contact_person(person_uri, get_person(G, person_uri), contact_data, deptids)

----------------------------------------------------------------------------
(* The person ingest driver *)

Outcome(add, sub, exc, log, n) ==
    [add |-> add, sub |-> sub, exc |-> exc, log |-> log, n |-> n, raised |-> FALSE]

\* An exception that nothing catches leaves the main loop: what was logged
\* stays, the RDF of the UFID is not written.
Uncaught(log, n) ==
    [add |-> {}, sub |-> {}, exc |-> <<>>, log |-> log, n |-> n, raised |-> TRUE]

\* The person is added; the position too when it qualifies.
add_person_without_position(ufid, data, person, exc, now) ==
    Outcome(person.rdf, {}, exc,
            << <<"Case 1: Add", ufid>>, <<"No position added for", person.uri>> >>, person.n)

\* add_person, then add_position when the position qualifies.
add_person_and_position(ufid, data, person, exc, now) ==
    IF ok_position(data) /\ ok_position_title(data["position_label"])
       /\ ok_deptid(data["DEPTID"], deptid_exception_dictionary)
    THEN IF "org_uri" \notin DOMAIN data
    THEN Uncaught(<< <<"Case 1: Add", ufid>> >>, person.n)
    ELSE Outcome(person.rdf
                 \cup add_position([person_uri |-> person.uri] @@ data, person.n, now).rdf,
                 {}, exc,
                 << <<"Case 1: Add", ufid>>, <<"Added to VIVO at", person.uri>> >>,
                 add_position([person_uri |-> person.uri] @@ data, person.n, now).n)
    ELSE Outcome(person.rdf, {}, exc,
                 << <<"Case 1: Add", ufid>>, <<"No position added for", person.uri>> >>,
                 person.n)

\* A case 1 that adds the person whatever the privacy flags, the UFID
\* exceptions and the title exceptions say.
case_add_unqualified(ufid, data, privacy, n, now) ==
    add_person_and_position(ufid, data, add_person(data, n, now), privacy.exc, now)

\* The qualification tests of case 1, after privacy was looked up.
case_add_qualified(ufid, data, privacy, n, now) ==
    IF /\ privacy.ok
       /\ ok_ufid(ufid, ufid_exception_dictionary)
       /\ ok_position_title(data["position_label"])
    THEN add_person_and_position(ufid, data, add_person(data, n, now), privacy.exc, now)
    ELSE Outcome({}, {}, privacy.exc,
                 << <<"Case 1: Add", ufid>>, <<"Does not Qualify", ufid>> >>, n)

\* The qualification tests of case 1 on the person's data with its URIs.
case_add_data(ufid, data, n, now) ==
    IF /\ (~ok_position(data) \/ data["position_type"] # None)
       /\ ok_deptid(data["DEPTID"], deptid_exception_dictionary)
    THEN case_add_qualified(ufid, data, ok_privacy(ufid, privacy_dictionary), n, now)
    ELSE Outcome({}, {}, <<>>,
                 << <<"Case 1: Add", ufid>>, <<"Does not Qualify", ufid>> >>, n)

HasValue(data, key) == key \in DOMAIN data /\ data[key] # ""

\* The home department and the position's department are looked up.
case_add_merged(ufid, data, n, now) ==
    IF HasValue(data, "home_deptid") /\ data["home_deptid"] \notin DOMAIN deptid_dictionary
    THEN Outcome({}, {}, << <<"Home DeptID", data["home_deptid"],
                              "Add Person can't find deptid">> >>,
                 << <<"Case 1: Add", ufid>> >>, n)
    ELSE IF HasValue(data, "DEPTID") /\ data["DEPTID"] \notin DOMAIN deptid_dictionary
    THEN Outcome({}, {}, << <<"Pos DeptID", data["DEPTID"],
                              "Add Person can't find deptid">> >>,
                 << <<"Case 1: Add", ufid>> >>, n)
    ELSE case_add_data(ufid,
                       (IF HasValue(data, "home_deptid")
                        THEN [duri |-> deptid_dictionary[data["home_deptid"]]] ELSE <<>>)
                       @@ (IF HasValue(data, "DEPTID")
                           THEN [org_uri |-> deptid_dictionary[data["DEPTID"]]] ELSE <<>>)
                       @@ data,
                       n, now)

\* Case 1: HR only.  Add the person to VIVO, and the position.
case_add(ufid, n, now) ==
    IF ufid \notin DOMAIN contact_dictionary
    THEN Outcome({}, {}, << <<"UFID", ufid, "No contact data">> >>,
                 << <<"Case 1: Add", ufid>> >>, n)
    ELSE case_add_merged(ufid, contact_dictionary[ufid] @@ hr_dictionary[ufid], n, now)

\* A person processed as former.
former_outcome(ufid, former) ==
    Outcome(former.add, former.sub, <<>>, << <<"Case 2: Former", ufid>> >>, former.n)

\* A case 2 that does not look at the URI exception list.
case_former_unlisted(ufid, n, now) ==
    former_outcome(ufid, former_person(vivo, ufid_dictionary[ufid], now, n))

\* Case 2: VIVO only.  Process the person as former.
case_former(ufid, n, now) ==
    IF ufid_dictionary[ufid] \in uri_exception_dictionary
    THEN Outcome({}, {}, <<>>, << <<"Case 2: NoEdit", ufid>> >>, n)
    ELSE former_outcome(ufid, former_person(vivo, ufid_dictionary[ufid], now, n))

\* The RDF of current_person, update_contact and update_position, and the
\* records of the exceptions the last two raised.
update_outcome(ufid, current, contact, position) ==
    Outcome(current.add \cup contact.ardf \cup position.ardf,
            current.sub \cup contact.srdf \cup position.srdf,
            (IF contact.raised
             THEN << <<"DeptID", contact.deptid,
                       "Case 3: Can't add home dept. DeptID not in VIVO">> >>
             ELSE <<>>)
            \o (IF position.raised
                THEN << <<"DeptID", hr_dictionary[ufid]["DEPTID"],
                          "Case 3: Can't add position. DeptID not in VIVO">> >>
                ELSE <<>>),
            << <<"Case 3: Update", ufid>> >>, position.n)

\* Case 3: HR and VIVO.  Update current, contact and position.
case_update(ufid, n, now) ==
    IF ufid_dictionary[ufid] \in uri_exception_dictionary
    THEN Outcome({}, {}, <<>>, << <<"Case 3: NoEdit", ufid>> >>, n)
    ELSE IF ufid \notin DOMAIN contact_dictionary
    THEN Outcome({}, {}, << <<"UFID", ufid, "Case 3: No contact data for UFID">> >>,
                 << <<"Case 3: Update", ufid>> >>, n)
    ELSE update_outcome(ufid, current_person(ufid_dictionary[ufid]),
             update_contact(vivo, ufid_dictionary[ufid], contact_dictionary[ufid],
                            deptid_dictionary),
             update_position(vivo, ufid_dictionary[ufid], hr_dictionary[ufid],
                             deptid_dictionary, deptid_exception_dictionary, n, now))

PersonStart ==
    /\ driver = "people"
    /\ pc = "start"
    /\ pc' = "report"
    /\ add_file' = {} /\ sub_file' = {} /\ exc_file' = <<>> /\ log_file' = <<>>
    /\ deptid_dictionary' = make_deptid_dictionary(vivo)
    /\ ufid_dictionary' = make_ufid_dictionary(vivo)
    /\ hr_dictionary' = make_hr_dictionary(position_csv)
    /\ UNCHANGED <<run, vivo, clock, next_uri, action_report, batch, row, gvars, tvars, driver, lvars,
                   position_csv, contact_csv, privacy_csv, contact_dictionary,
                   privacy_dictionary, uri_exception_dictionary,
                   ufid_exception_dictionary, deptid_exception_dictionary, people>>

\* The action report, then the privacy and contact data of its UFIDs.
PersonReport ==
    /\ driver = "people"
    /\ pc = "report"
    /\ pc' = "process"
    /\ action_report' = make_action_report(hr_dictionary, ufid_dictionary)
    /\ privacy_dictionary' = make_privacy_dictionary(privacy_csv, action_report')
    /\ contact_dictionary' = make_contact_dictionary(contact_csv, action_report')
    /\ row' = 0
    /\ UNCHANGED <<run, vivo, clock, next_uri, add_file, sub_file, exc_file, log_file,
                   batch, deptid_dictionary, ufid_dictionary, gvars, tvars, driver, lvars, position_csv,
                   contact_csv, privacy_csv, hr_dictionary, uri_exception_dictionary,
                   ufid_exception_dictionary, deptid_exception_dictionary, people>>

\* What the main loop writes for ufid.
WriteUfid(ufid, out) ==
    /\ add_file' = add_file \cup out.add
    /\ sub_file' = sub_file \cup out.sub
    /\ exc_file' = exc_file \o out.exc
    /\ log_file' = log_file \o out.log
    /\ batch' = IF out.raised THEN batch
                ELSE Put(batch, ufid, [add |-> out.add, sub |-> out.sub])
    /\ next_uri' = out.n
    /\ pc' = IF out.raised THEN "aborted" ELSE pc

ProcessPerson(ufid) ==
    WriteUfid(ufid, IF action_report[ufid] = 1 THEN case_add(ufid, next_uri, clock)
                    ELSE IF action_report[ufid] = 2 THEN case_former(ufid, next_uri, clock)
                    ELSE case_update(ufid, next_uri, clock))

\* The main loop processes the next ufid of sorted(action_report.keys()).
ProcessUfid ==
    /\ driver = "people"
    /\ pc = "process"
    /\ row < Len(Sorted(DOMAIN action_report))
    /\ ProcessPerson(Sorted(DOMAIN action_report)[row + 1])
    /\ row' = row + 1
    /\ clock' = clock + 1
    /\ UNCHANGED <<run, vivo, action_report, deptid_dictionary, ufid_dictionary,
                   gvars, tvars, driver, lvars, pvars>>

PersonFinish ==
    /\ driver = "people"
    /\ pc = "process"
    /\ row = Len(Sorted(DOMAIN action_report))
    /\ pc' = "done"
    /\ UNCHANGED <<run, vivo, clock, next_uri, add_file, sub_file, exc_file, log_file,
                   action_report, batch, deptid_dictionary, ufid_dictionary, row, gvars, tvars, driver, lvars,
                   pvars>>

PersonNext == PersonStart \/ PersonReport \/ ProcessUfid \/ PersonFinish

----------------------------------------------------------------------------
(* The inputs of person ingest *)

Orgs == {<<"org1", "ufVivo:deptID", "d1">>, <<"org2", "ufVivo:deptID", "d2">>}

\* per1, of UFID u1, as the contact row ContactSame describes them, current,
\* with the position the HR row HrRow("u1", "d1", "PROF", ...) describes.
Per1InSync ==
    {<<"per1", "rdf:type", "foaf:Person">>,
     <<"per1", "rdf:type", "ufVivo:UFEntity">>,
     <<"per1", "rdf:type", "ufVivo:UFCurrentEntity">>,
     <<"per1", "ufVivo:ufid", "u1">>,
     <<"per1", "foaf:firstName", "John">>,
     <<"per1", "foaf:lastName", "Smith">>,
     <<"per1", "rdfs:label", "Smith, John">>,
     <<"per1", "ufVivo:gatorlink", "jsmith">>,
     <<"per1", "vivo:preferredTitle", "Professor">>,
     <<"per1", "vivo:primaryEmail", "jsmith@ufl.edu">>,
     <<"per1", "vivo:primaryPhoneNumber", "(352) 555-1234">>,
     <<"per1", "ufVivo:homeDept", "org1">>,
     <<"per1", "vivo:personInPosition", "pos1">>,
     <<"pos1", "rdf:type", "vivo:Position">>,
     <<"pos1", "vivo:positionForPerson", "per1">>,
     <<"pos1", "vivo:positionInOrganization", "org1">>,
     <<"pos1", "vivo:hrJobTitle", "PROF">>,
     <<"pos1", "vivo:dateTimeInterval", "dtiA">>,
     <<"dtiA", "rdf:type", "vivo:DateTimeInterval">>,
     <<"dtiA", "vivo:start", "dvA">>}
    \cup make_datetime_rdf("dvA", "2010-01-01T00:00:00")

\* per1 with other contact values, an empty phone number, and no position.
Per1Differs ==
    {<<"per1", "rdf:type", "foaf:Person">>,
     <<"per1", "ufVivo:ufid", "u1">>,
     <<"per1", "foaf:firstName", "John">>,
     <<"per1", "vivo:preferredTitle", "Lecturer">>,
     <<"per1", "vivo:primaryEmail", "old@ufl.edu">>,
     <<"per1", "vivo:primaryPhoneNumber", "">>,
     <<"per1", "vivo:faxNumber", "(352) 555-9999">>,
     <<"per1", "ufVivo:homeDept", "org2">>}

\* per3, of UFID u3, current, with contact values and two open positions,
\* one of them without a date interval.
Per3Current ==
    {<<"per3", "rdf:type", "foaf:Person">>,
     <<"per3", "rdf:type", "ufVivo:UFEntity">>,
     <<"per3", "rdf:type", "ufVivo:UFCurrentEntity">>,
     <<"per3", "ufVivo:ufid", "u3">>,
     <<"per3", "rdfs:label", "Jones, Ann">>,
     <<"per3", "vivo:preferredTitle", "Dean">>,
     <<"per3", "vivo:primaryEmail", "ajones@ufl.edu">>,
     <<"per3", "vivo:primaryPhoneNumber", "(352) 555-0000">>,
     <<"per3", "vivo:faxNumber", "(352) 555-0001">>,
     <<"per3", "vivo:personInPosition", "pos3">>,
     <<"pos3", "vivo:positionForPerson", "per3">>,
     <<"pos3", "vivo:positionInOrganization", "org1">>,
     <<"pos3", "vivo:hrJobTitle", "DEAN">>,
     <<"pos3", "vivo:dateTimeInterval", "dtiC">>,
     <<"dtiC", "rdf:type", "vivo:DateTimeInterval">>,
     <<"per3", "vivo:personInPosition", "pos4">>,
     <<"pos4", "vivo:positionForPerson", "per3">>,
     <<"pos4", "vivo:positionInOrganization", "org2">>,
     <<"pos4", "vivo:hrJobTitle", "PROF">>}

\* per3 as a run that found them in VIVO only leaves them.
Per3Former ==
    {<<"per3", "rdf:type", "foaf:Person">>,
     <<"per3", "rdf:type", "ufVivo:UFEntity">>,
     <<"per3", "ufVivo:ufid", "u3">>,
     <<"per3", "rdfs:label", "Jones, Ann">>,
     <<"per3", "vivo:personInPosition", "pos3">>,
     <<"pos3", "vivo:positionForPerson", "per3">>,
     <<"pos3", "vivo:positionInOrganization", "org1">>,
     <<"pos3", "vivo:hrJobTitle", "DEAN">>,
     <<"pos3", "vivo:dateTimeInterval", "dtiC">>,
     <<"dtiC", "rdf:type", "vivo:DateTimeInterval">>,
     <<"dtiC", "vivo:end", "dvC">>}
    \cup make_datetime_precision_rdf("dvC", "2013", "vivo:yearPrecision")

\* per3 with an empty phone number and a title, and no position.
Per3Partial ==
    {<<"per3", "rdf:type", "foaf:Person">>,
     <<"per3", "rdf:type", "ufVivo:UFCurrentEntity">>,
     <<"per3", "ufVivo:ufid", "u3">>,
     <<"per3", "vivo:preferredTitle", "Dean">>,
     <<"per3", "vivo:primaryPhoneNumber", "">>}

PersonGraphs ==
    {Orgs \cup a \cup b :
        <<a, b>> \in {<<Per1InSync, Per3Former>>, <<Per1InSync, Per3Current>>,
                      <<Per1Differs, Per3Current>>, <<Per1Differs, Per3Partial>>,
                      <<{}, Per3Current>>, <<{}, Per3Former>>}}

HrRow(ufid, deptid, job, plan, hr_position) ==
    [UFID |-> ufid, DEPTID |-> deptid, JOBCODE_DESCRIPTION |-> job,
     SAL_ADMIN_PLAN |-> plan, HR_POSITION |-> hr_position,
     START_DATE |-> "2010-01-01", END_DATE |-> ""]

HrRows ==
    {HrRow("u1", "d1", "PROF", "FA09", "1"),
     HrRow("u1", "d2", "ASST PROF", "FA09", "1"),
     HrRow("u1", "dX", "PROF", "FA09", "1"),
     HrRow("u2", "d1", "PROF", "CPFI", "1"),
     HrRow("u2", "d2", "ACADEMIC LUMP SUM PAYMENT", "OPSN", "0"),
     HrRow("u2", "d2", "ASST PROF", "OPSN", "0"),
     HrRow("u2", "", "PROF", "FA09", "0"),
     HrRow("u2", "", "PROF", "FA09", "1")}

ContactRow(ufid, first, last, display, title, phone, fax, email, gatorlink, home) ==
    [UFID |-> ufid, FIRST_NAME |-> first, LAST_NAME |-> last, MIDDLE_NAME |-> "",
     NAME_PREFIX |-> "", NAME_SUFFIX |-> "", DISPLAY_NAME |-> display,
     WORKINGTITLE |-> title, UF_BUSINESS_PHONE |-> phone, UF_BUSINESS_FAX |-> fax,
     UF_BUSINESS_EMAIL |-> email, GATORLINK |-> gatorlink, HOME_DEPT |-> home]

ContactSame ==
    ContactRow("u1", "John", "Smith", "SMITH,JOHN", "PROF", "3525551234", "",
               "jsmith@ufl.edu", "jsmith", "d1")

ContactFiles ==
    <<<<>>,
     <<ContactSame,
       ContactRow("u2", "Ann", "Lee", "Lee, Ann", "Research Fellow", "352 555 9999", "",
                  " alee@ufl.edu ", "alee", "")>>,
     <<ContactRow("u1", "John", "Smith", "Smith, John", "Dean of Things", "", "",
                  "none", "jsmith", "dX"),
       ContactRow("u2", "Ann", "Lee", "Lee, Ann", "", "", "", "", "", "dX")>>>>

PrivacyRow(ufid, security, protect) ==
    [UFID |-> ufid, UF_SECURITY_FLG |-> security, UF_PROTECT_FLG |-> protect,
     UF_PUBLISH_FLG |-> "Y"]

PrivacyFiles ==
    <<<<PrivacyRow("u1", "N", "N"), PrivacyRow("u2", "N", "N")>>,
      <<PrivacyRow("u2", "N", "Y")>>,
      <<>>>>

\* The URI, UFID and DeptID exception lists, by their keys.
ExceptionLists ==
    <<[uri |-> {}, ufid |-> {}, deptid |-> {}],
      [uri |-> {"per1", "per3"}, ufid |-> {}, deptid |-> {}],
      [uri |-> {}, ufid |-> {"u2"}, deptid |-> {}],
      [uri |-> {}, ufid |-> {}, deptid |-> {"d2"}]>>

\* The contact file, privacy file and exception lists of a run.
SourceFiles ==
    {<<2, 1, 1>>, <<3, 1, 1>>, <<1, 1, 1>>, <<2, 2, 1>>, <<2, 3, 1>>,
     <<2, 1, 2>>, <<2, 1, 3>>, <<2, 1, 4>>}

InitPerson ==
    /\ driver = "people"
    /\ InitLibrary
    /\ pc = "start"
    /\ run = 1
    /\ vivo \in PersonGraphs
    /\ position_csv \in Files(HrRows)
    /\ \E f \in SourceFiles :
          /\ contact_csv = ContactFiles[f[1]]
          /\ privacy_csv = PrivacyFiles[f[2]]
          /\ uri_exception_dictionary = ExceptionLists[f[3]].uri
          /\ ufid_exception_dictionary = ExceptionLists[f[3]].ufid
          /\ deptid_exception_dictionary = ExceptionLists[f[3]].deptid
    /\ clock = 1
    /\ next_uri = 1
    /\ add_file = {} /\ sub_file = {} /\ exc_file = <<>> /\ log_file = <<>>
    /\ action_report = <<>> /\ batch = <<>>
    /\ deptid_dictionary = <<>> /\ ufid_dictionary = <<>>
    /\ row = 0
    /\ hr_dictionary = <<>> /\ contact_dictionary = <<>> /\ privacy_dictionary = <<>>
    /\ people = <<>>
    /\ InitGrants
    /\ InitCourses

\* One run of person ingest.
SpecPerson == InitPerson /\ [][PersonNext]_vars

----------------------------------------------------------------------------
(* Properties of the action report, the reconciler and person ingest *)

\* The keys of the source dictionary and of the VIVO dictionary of a driver.
SourceKeys == IF driver = "grants" THEN DOMAIN dsp_dictionary ELSE DOMAIN hr_dictionary

GraphKeys == IF driver = "grants" THEN DOMAIN grant_dictionary ELSE DOMAIN ufid_dictionary

ReportBuilt == driver \in {"grants", "people"} /\ pc \in {"process", "done"}

\* C1: once the action report of grant ingest or person ingest is built, its
\* keys are the keys of the source and of VIVO together, and the value of a
\* key is 1 if and only if the key is in the source alone, 2 if and only if it
\* is in VIVO alone, 3 if and only if it is in both.
C1_ActionReportClassifies ==
    ReportBuilt =>
        /\ DOMAIN action_report = SourceKeys \cup GraphKeys
        /\ \A k \in DOMAIN action_report :
              /\ action_report[k] \in {1, 2, 3}
              /\ (action_report[k] = 1) <=> (k \in SourceKeys /\ k \notin GraphKeys)
              /\ (action_report[k] = 2) <=> (k \notin SourceKeys /\ k \in GraphKeys)
              /\ (action_report[k] = 3) <=> (k \in SourceKeys /\ k \in GraphKeys)

\* The action report of a person ingest holds a key of each of the three cases.
C1_Witness ==
    /\ driver = "people"
    /\ pc = "process"
    /\ {action_report[k] : k \in DOMAIN action_report} = {1, 2, 3}

\* The statements of a set about one predicate of one entity.
About(S, uri, predicate) == {t \in S : t[1] = uri /\ t[2] = predicate}

\* The value of a key of a dictionary, null when the key is absent or its
\* value is the empty string.
Nulled(d, k) == IF k \in DOMAIN d /\ d[k] # "" THEN d[k] ELSE None

\* The outcome of the table for a predicate, in the RDF written for a key.
Reconciled(entry, uri, predicate, existing, source) ==
    /\ About(entry.add, uri, predicate) =
          IF source # None /\ source # existing THEN {<<uri, predicate, source>>} ELSE {}
    /\ About(entry.sub, uri, predicate) =
          IF existing # None /\ existing # source THEN {<<uri, predicate, existing>>} ELSE {}

GrantsReconciled ==
    (driver = "grants" /\ InMainLoop) =>
        \A pcn \in DOMAIN batch :
            action_report[pcn] = 3 =>
                \A k \in GrantProperties \cup GrantResources :
                    Reconciled(batch[pcn], grant_dictionary[pcn], GrantPredicates[k],
                               Nulled(get_grant(vivo, grant_dictionary[pcn], <<>>).props, k),
                               Nulled(dsp_dictionary[pcn], k))

\* update_contact returned for ufid: it was called, and raised no exception.
ContactUpdated(ufid) ==
    /\ ufid \in DOMAIN batch
    /\ action_report[ufid] = 3
    /\ ufid_dictionary[ufid] \notin uri_exception_dictionary
    /\ ufid \in DOMAIN contact_dictionary
    /\ "home_deptid" \in DOMAIN contact_dictionary[ufid]
          => contact_dictionary[ufid]["home_deptid"] \in DOMAIN deptid_dictionary

PeopleReconciled ==
    (driver = "people" /\ pc \in {"process", "done"}) =>
        \A ufid \in DOMAIN action_report :
            ContactUpdated(ufid) =>
                \A k \in DOMAIN ContactProperties :
                    Reconciled(batch[ufid], ufid_dictionary[ufid], ContactProperties[k],
                               Nulled(get_person(vivo, ufid_dictionary[ufid]), k),
                               Nulled(contact_dictionary[ufid], k))

ContactPredicates ==
    {"vivo:primaryPhoneNumber", "vivo:primaryEmail", "vivo:faxNumber", "vivo:preferredTitle"}

CurrentType(uri) == <<uri, "rdf:type", "ufVivo:UFCurrentEntity">>

\* The person is in VIVO as the contact data and the HR position describe them.
InSyncWithHr(ufid) ==
    /\ ufid \in DOMAIN contact_dictionary
    /\ \A k \in DOMAIN ContactProperties :
          Nulled(get_person(vivo, ufid_dictionary[ufid]), k)
             = Nulled(contact_dictionary[ufid], k)
    /\ "home_deptid" \in DOMAIN contact_dictionary[ufid] =>
          /\ contact_dictionary[ufid]["home_deptid"] \in DOMAIN deptid_dictionary
          /\ <<ufid_dictionary[ufid], "ufVivo:homeDept",
               deptid_dictionary[contact_dictionary[ufid]["home_deptid"]]>> \in vivo
    /\ hr_dictionary[ufid]["DEPTID"] \in DOMAIN deptid_dictionary
    /\ \E pos \in Objects(vivo, ufid_dictionary[ufid], "vivo:personInPosition") :
          /\ <<pos, "vivo:positionInOrganization",
               deptid_dictionary[hr_dictionary[ufid]["DEPTID"]]>> \in vivo
          /\ <<pos, "vivo:hrJobTitle", hr_dictionary[ufid]["hr_title"]>> \in vivo
    /\ CurrentType(ufid_dictionary[ufid]) \in vivo
    /\ <<ufid_dictionary[ufid], "rdf:type", "ufVivo:UFEntity">> \in vivo

\* The person is in VIVO as former_person leaves a person.
AlreadyFormer(ufid) ==
    /\ CurrentType(ufid_dictionary[ufid]) \notin vivo
    /\ \A t \in vivo : ~(t[1] = ufid_dictionary[ufid] /\ t[2] \in ContactPredicates)
    /\ \A pos \in Objects(vivo, ufid_dictionary[ufid], "vivo:personInPosition") :
          \E dti \in Objects(vivo, pos, "vivo:dateTimeInterval") :
              Objects(vivo, dti, "vivo:end") # {}

\* C4: when every UFID is in HR and in VIVO with equal contact values and the
\* HR position present, or in VIVO alone and already a former person, the run
\* writes no statement to the add file and none to the sub file.
C4_PersonIngestIdempotent ==
    (/\ driver = "people"
     /\ pc = "done"
     /\ action_report # <<>>
     /\ \A ufid \in DOMAIN action_report :
           \/ action_report[ufid] = 3 /\ InSyncWithHr(ufid)
           \/ action_report[ufid] = 2 /\ AlreadyFormer(ufid))
        => (add_file = {} /\ sub_file = {})

\* former_person was called for ufid.
ProcessedAsFormer(ufid) ==
    /\ ufid \in DOMAIN batch
    /\ action_report[ufid] = 2
    /\ ufid_dictionary[ufid] \notin uri_exception_dictionary

\* C10: what former_person retracts of a person in VIVO alone is the
\* UFCurrentEntity type and the phone number, email, fax number and preferred
\* title the person has in VIVO, and nothing else: not the UFEntity type, the
\* UFID, a name or a position.
C10_FormerPersonKeepsPerson ==
    (driver = "people" /\ pc \in {"process", "done"}) =>
        \A ufid \in DOMAIN action_report :
            ProcessedAsFormer(ufid) =>
                /\ batch[ufid].sub \subseteq
                      {CurrentType(ufid_dictionary[ufid])}
                      \cup {t \in vivo : /\ t[1] = ufid_dictionary[ufid]
                                         /\ t[2] \in ContactPredicates}
                /\ \A t \in batch[ufid].sub :
                      /\ t # <<ufid_dictionary[ufid], "rdf:type", "ufVivo:UFEntity">>
                      /\ t # <<ufid_dictionary[ufid], "rdf:type", "foaf:Person">>
                      /\ t[2] \notin {"ufVivo:ufid", "rdfs:label", "foaf:firstName",
                                      "foaf:lastName", "vivo:middleName",
                                      "vivo:personInPosition", "vivo:positionForPerson"}

\* former_person was called for a person with contact values, names and
\* positions in VIVO, and retracted contact values.
C10_Witness ==
    /\ driver = "people"
    /\ pc = "done"
    /\ \E ufid \in DOMAIN action_report :
          /\ ProcessedAsFormer(ufid)
          /\ Cardinality(batch[ufid].sub) > 1
          /\ Objects(vivo, ufid_dictionary[ufid], "vivo:personInPosition") # {}
          /\ Objects(vivo, ufid_dictionary[ufid], "rdfs:label") # {}
          /\ <<ufid_dictionary[ufid], "rdf:type", "ufVivo:UFEntity">> \in vivo

\* The RDF add holds an end date of the run's date at year precision, on the
\* position's date interval, or on a new interval of the position.
ClosedThisYear(add, position) ==
    \E d \in {t[1] : t \in add} :
        /\ \E t \in 1..clock : <<d, "vivo:dateTime", Now(t)>> \in add
        /\ <<d, "vivo:dateTimePrecision", "vivo:yearPrecision">> \in add
        /\ IF position.datetime_interval # None
           THEN <<position.datetime_interval, "vivo:end", d>> \in add
           ELSE \E i \in {t[1] : t \in add} :
                   /\ <<position.position_uri, "vivo:dateTimeInterval", i>> \in add
                   /\ <<i, "vivo:end", d>> \in add

\* The RDF add says nothing of the position nor of its date interval.
PositionUntouched(add, position) ==
    \A t \in add :
        /\ t[1] \notin {position.position_uri, position.datetime_interval}
        /\ t[3] \notin {position.position_uri, position.datetime_interval}

PositionsOf(ufid) == get_positions(vivo, ufid_dictionary[ufid])

\* C11: for a person in VIVO alone, every position without an end date gets
\* an end date of the run's date at year precision, whether the position has
\* a date interval or not, and nothing is written for a position that has an
\* end date.
C11_OpenPositionsClosedAtYear ==
    (driver = "people" /\ pc \in {"process", "done"}) =>
        \A ufid \in DOMAIN action_report :
            ProcessedAsFormer(ufid) =>
                \A i \in DOMAIN PositionsOf(ufid) :
                    IF PositionsOf(ufid)[i].end_date = None
                    THEN ClosedThisYear(batch[ufid].add, PositionsOf(ufid)[i])
                    ELSE PositionUntouched(batch[ufid].add, PositionsOf(ufid)[i])

\* The main loop reached ufid of HR and VIVO, whose URI is not excepted.
ProcessedAsCurrent(ufid) ==
    /\ ufid \in DOMAIN batch
    /\ action_report[ufid] = 3
    /\ ufid_dictionary[ufid] \notin uri_exception_dictionary

\* C12: every UFID of HR and VIVO whose URI is not on the URI exception list
\* has the UFEntity and UFCurrentEntity types in the addition output, also
\* when there is no contact data for the UFID and when a DeptID is not in VIVO.
C12_CurrentPersonMarked ==
    (driver = "people" /\ pc \in {"process", "done"}) =>
        \A ufid \in DOMAIN action_report :
            ProcessedAsCurrent(ufid) =>
                current_person(ufid_dictionary[ufid]).add \subseteq add_file

\* The main loop reached ufid, in VIVO, whose URI is on the exception list.
ProcessedAsException(ufid) ==
    /\ ufid \in DOMAIN batch
    /\ action_report[ufid] \in {2, 3}
    /\ ufid_dictionary[ufid] \in uri_exception_dictionary

\* C13: for a person whose URI is on the URI exception list, nothing is
\* written to the addition output nor to the retraction output, whether the
\* UFID is in VIVO alone or in HR and VIVO.
C13_UriExceptionWritesNothing ==
    (driver = "people" /\ pc \in {"process", "done"}) =>
        \A ufid \in DOMAIN action_report :
            ProcessedAsException(ufid) =>
                /\ batch[ufid].add = {} /\ batch[ufid].sub = {}
                /\ Mentioned(add_file \cup sub_file, ufid_dictionary[ufid]) = {}

\* A run wrote RDF and passed over an excepted person of each case, both with
\* statements in VIVO that the run would otherwise have changed.
C13_Witness ==
    /\ driver = "people"
    /\ pc = "done"
    /\ add_file # {}
    /\ \E a, b \in DOMAIN action_report :
          /\ ProcessedAsException(a) /\ action_report[a] = 2
          /\ CurrentType(ufid_dictionary[a]) \in vivo
          /\ ProcessedAsException(b) /\ action_report[b] = 3
          /\ b \in DOMAIN contact_dictionary

\* The main loop reached ufid, of HR alone.
ProcessedAsNew(ufid) == ufid \in DOMAIN batch /\ action_report[ufid] = 1

\* The RDF written for ufid adds a person of that UFID.
PersonAdded(ufid) ==
    \E t \in batch[ufid].add :
        /\ t[2] = "ufVivo:ufid" /\ t[3] = ufid
        /\ <<t[1], "rdf:type", "foaf:Person">> \in batch[ufid].add

\* The DeptID under key of the UFID's data is in the DeptID dictionary.
DeptIDResolves(data, key) == key \in DOMAIN data /\ data[key] \in DOMAIN deptid_dictionary

\* The DeptID under key is in the DeptID dictionary, or there is none.
DeptIDResolvesIfGiven(data, key) ==
    (key \in DOMAIN data /\ data[key] # "") => data[key] \in DOMAIN deptid_dictionary

\* The conditions on ufid other than those on the resolution of DeptIDs.
QualifiesApartFromDeptIDs(ufid) ==
    /\ hr_dictionary[ufid]["DEPTID"] \notin deptid_exception_dictionary
    /\ ufid \in DOMAIN privacy_dictionary
    /\ privacy_dictionary[ufid].uf_security_flag # "Y"
    /\ privacy_dictionary[ufid].uf_protect_flag # "Y"
    /\ ufid \notin ufid_exception_dictionary
    /\ make_position_title(hr_dictionary[ufid]["JOBCODE_DESCRIPTION"])
          \notin {"Academic Lump Sum Payment", "Ops Lump Sum Payment"}
    /\ \/ hr_dictionary[ufid]["HR_POSITION"] = "0"
       \/ make_position_type(hr_dictionary[ufid]["SAL_ADMIN_PLAN"]) # None

QualifiesIfGiven(ufid) ==
    /\ ufid \in DOMAIN contact_dictionary
    /\ DeptIDResolvesIfGiven(contact_dictionary[ufid], "home_deptid")
    /\ DeptIDResolvesIfGiven(hr_dictionary[ufid], "DEPTID")
    /\ QualifiesApartFromDeptIDs(ufid)

\* The position of ufid is to be added and has no department.
PositionWithoutDeptID(ufid) ==
    hr_dictionary[ufid]["DEPTID"] = "" /\ hr_dictionary[ufid]["HR_POSITION"] # "0"

PositionUpdated(ufid) == ProcessedAsCurrent(ufid) /\ ufid \in DOMAIN contact_dictionary

\* A statement of a position, of its place or of its dates.
PositionStatement(t) ==
    \/ t[2] \in {"vivo:personInPosition", "vivo:positionForPerson",
                 "vivo:positionInOrganization", "vivo:organizationForPosition",
                 "vivo:hrJobTitle", "vivo:dateTimeInterval", "vivo:start", "vivo:end",
                 "vivo:dateTime", "vivo:dateTimePrecision"}
    \/ t[3] \in {"vivo:Position", "vivo:DateTimeInterval", "vivo:DateTimeValue"}

\* A position the person has in VIVO is in the organization of the HR
\* record's DeptID and has its HR job title.
HasHrPosition(ufid) ==
    \E i \in DOMAIN PositionsOf(ufid) :
        /\ PositionsOf(ufid)[i].org_uri
              \in Subjects(vivo, "ufVivo:deptID", hr_dictionary[ufid]["DEPTID"])
        /\ PositionsOf(ufid)[i].hr_title = hr_dictionary[ufid]["JOBCODE_DESCRIPTION"]

\* The HR position qualifies: title and DeptID not excepted, HR_POSITION not 0.
HrPositionQualifies(ufid) ==
    /\ make_position_title(hr_dictionary[ufid]["JOBCODE_DESCRIPTION"])
          \notin {"Academic Lump Sum Payment", "Ops Lump Sum Payment"}
    /\ hr_dictionary[ufid]["HR_POSITION"] # "0"
    /\ hr_dictionary[ufid]["DEPTID"] \notin deptid_exception_dictionary

\* The positions the RDF written for ufid adds.
NewPositions(ufid) ==
    {t[1] : t \in {u \in batch[ufid].add : u[2] = "rdf:type" /\ u[3] = "vivo:Position"}}

\* The position added is the HR record's, for the person of ufid.
IsHrPosition(ufid, position_uri) ==
    /\ <<position_uri, "vivo:positionForPerson", ufid_dictionary[ufid]>> \in batch[ufid].add
    /\ <<position_uri, "vivo:hrJobTitle", hr_dictionary[ufid]["JOBCODE_DESCRIPTION"]>>
          \in batch[ufid].add
    /\ \E org \in Subjects(vivo, "ufVivo:deptID", hr_dictionary[ufid]["DEPTID"]) :
          <<position_uri, "vivo:positionInOrganization", org>> \in batch[ufid].add

\* C15 as stated: update_position retracts nothing; it adds no position when
\* a position of the person has the organization and HR job title of the HR
\* record; otherwise it adds exactly one position when the HR position
\* qualifies, and none when it does not.
C15_UpdatePositionAddsOne ==
    (driver = "people" /\ pc \in {"process", "done"}) =>
        \A ufid \in DOMAIN action_report :
            PositionUpdated(ufid) =>
                /\ \A t \in batch[ufid].sub : ~PositionStatement(t)
                /\ IF HasHrPosition(ufid) THEN NewPositions(ufid) = {}
                   ELSE IF HrPositionQualifies(ufid)
                   THEN /\ Cardinality(NewPositions(ufid)) = 1
                        /\ \A p \in NewPositions(ufid) : IsHrPosition(ufid, p)
                   ELSE NewPositions(ufid) = {}

\* C15 amended: the one position is added when the HR position qualifies and
\* its DeptID is in the DeptID dictionary; when the DeptID is not, nothing is
\* added and the DeptID is recorded as an exception.
C15_UpdatePositionAddsOneResolved ==
    (driver = "people" /\ pc \in {"process", "done"}) =>
        \A ufid \in DOMAIN action_report :
            PositionUpdated(ufid) =>
                /\ \A t \in batch[ufid].sub : ~PositionStatement(t)
                /\ IF hr_dictionary[ufid]["DEPTID"] \notin DOMAIN deptid_dictionary
                   THEN /\ NewPositions(ufid) = {}
                        /\ \E i \in DOMAIN exc_file :
                              exc_file[i] = <<"DeptID", hr_dictionary[ufid]["DEPTID"],
                                              "Case 3: Can't add position. DeptID not in VIVO">>
                   ELSE IF HasHrPosition(ufid) THEN NewPositions(ufid) = {}
                   ELSE IF HrPositionQualifies(ufid)
                   THEN /\ Cardinality(NewPositions(ufid)) = 1
                        /\ \A p \in NewPositions(ufid) : IsHrPosition(ufid, p)
                   ELSE NewPositions(ufid) = {}

\* A person with a position in VIVO got one new position, of another title
\* or organization, and no retraction of a position.
C15_Witness ==
    /\ driver = "people"
    /\ pc = "done"
    /\ \E ufid \in DOMAIN action_report :
          /\ PositionUpdated(ufid)
          /\ PositionsOf(ufid) # <<>>
          /\ ~HasHrPosition(ufid)
          /\ Cardinality(NewPositions(ufid)) = 1

----------------------------------------------------------------------------
(* course_ingest.py *)

\* term_number[0:4] and term_number[4:5] of the term numbers of the model.
TermYear(term_number) ==
    CASE term_number \in {"20141", "20142", "20146", "20148"} -> "2014"
      [] term_number \in {"20131"} -> "2013"
      [] OTHER -> ""

TermDigit(term_number) ==
    CASE term_number \in {"20141", "20131"} -> "1"
      [] term_number = "20142" -> "2"
      [] term_number = "20146" -> "6"
      [] term_number = "20148" -> "8"
      [] OTHER -> ""

\* term_name: raised is NoSuchAcademicTermException.
term_name(term_number) ==
    LET year == TermYear(term_number)
        term == TermDigit(term_number)
    IN IF term = "1" THEN [raised |-> FALSE, name |-> "Spring " \o year]
       ELSE IF term \in {"5", "6", "7"} THEN [raised |-> FALSE, name |-> "Summer " \o year]
       ELSE IF term = "8" THEN [raised |-> FALSE, name |-> "Fall " \o year]
       ELSE [raised |-> TRUE, name |-> None]

\* UF_UFID.ljust(8, '0'): a UFID of the model stands for its eight digits.
ljust8(s) == IF s = "u2short" THEN "u2" ELSE s

\* UF_COURSE_NAME.title()
Title(s) ==
    CASE s = "INTRO TO THINGS" -> "Intro To Things"
      [] s = "ADV THINGS" -> "Adv Things"
      [] OTHER -> s

\* One pass of the loop of make_taught_dictionary.
make_taught_data(r) ==
    [ufid |-> ljust8(r.UF_UFID),
     term_name |-> term_name(r.UF_TERM).name,
     course_number |-> r.UF_COURSE_CD,
     course_name |-> r.UF_COURSE_CD \o " " \o Title(r.UF_COURSE_NAME),
     section_number |-> r.UF_SECTION,
     section_name |-> r.UF_COURSE_CD \o " " \o term_name(r.UF_TERM).name
                      \o " " \o r.UF_SECTION]
    @@ r

make_term_dictionary(G) ==
    DictOf({<<t[3], t[1]>> : t \in {u \in G : u[2] = "rdfs:label"
                                       /\ <<u[1], "rdf:type", "vivo:AcademicTerm">> \in G}})

\* The bindings of the query of make_course_dictionary over the graph G.
course_query(G) ==
    {<<t[3], t[1]>> : t \in {u \in G : u[2] = "ufVivo:courseNum"
                                 /\ <<u[1], "rdf:type", "ufVivo:Course">> \in G}}

make_course_dictionary(G) == DictOf(bindings_read(QueryResult(course_query(G))))

make_section_dictionary(G) ==
    DictOf({<<t[3], t[1]>> : t \in {u \in G : u[2] = "rdfs:label"
                                       /\ <<u[1], "rdf:type", "ufVivo:CourseSection">> \in G}})

CoursesHarvestedBy == "Python Courses version 0.5"

make_course_rdf(taught_data, n, now) ==
    [rdf |-> {<<Uri(n), "rdf:type", "owl:Thing">>,
              <<Uri(n), "rdf:type", "ufVivo:Course">>,
              <<Uri(n), "rdf:type", "ufVivo:UFEntity">>,
              <<Uri(n), "rdfs:label", taught_data["course_name"]>>,
              <<Uri(n), "ufVivo:courseNum", taught_data["course_number"]>>,
              <<Uri(n), "ufVivo:harvestedBy", CoursesHarvestedBy>>,
              <<Uri(n), "ufVivo:dateHarvested", Now(now)>>},
     course_uri |-> Uri(n),
     n |-> n + 1]

\* section_uri, teacher_role_uri and course_role_uri are three new URIs.
make_section_rdf(taught_data, n, now) ==
    LET section_uri == Uri(n)
        teacher_role_uri == Uri(n + 1)
        course_role_uri == Uri(n + 2)
    IN [rdf |-> {<<section_uri, "rdf:type", "owl:Thing">>,
                 <<section_uri, "rdf:type", "ufVivo:CourseSection">>,
                 <<section_uri, "rdf:type", "ufVivo:UFEntity">>,
                 <<section_uri, "rdfs:label", taught_data["section_name"]>>,
                 <<section_uri, "ufVivo:sectionNum", taught_data["section_number"]>>,
                 <<section_uri, "vivo:dateTimeInterval", taught_data["term_uri"]>>,
                 <<section_uri, "ufVivo:sectionForCourse", taught_data["course_uri"]>>,
                 <<section_uri, "ufVivo:harvestedBy", CoursesHarvestedBy>>,
                 <<section_uri, "ufVivo:dateHarvested", Now(now)>>,
                 <<taught_data["term_uri"], "ufVivo:dateTimeIntervalFor", section_uri>>,
                 <<teacher_role_uri, "rdf:type", "owl:Thing">>,
                 <<teacher_role_uri, "rdf:type", "vivo:TeacherRole">>,
                 <<teacher_role_uri, "vivo:teacherRoleOf", taught_data["person_uri"]>>,
                 <<teacher_role_uri, "vivo:roleRealizedIn", section_uri>>}
                \cup (IF taught_data["course_new"]
                      THEN {<<course_role_uri, "rdf:type", "owl:Thing">>,
                            <<course_role_uri, "rdf:type", "vivo:TeacherRole">>,
                            <<course_role_uri, "rdfs:label", taught_data["course_name"]>>,
                            <<course_role_uri, "ufVivo:courseRoleOf", taught_data["person_uri"]>>,
                            <<course_role_uri, "vivo:roleRealizedIn", taught_data["course_uri"]>>}
                      ELSE {}),
        section_uri |-> section_uri,
        n |-> n + 3]

AssignEntityDropped(dictionary, key, uri) == dictionary

\* course_dictionary[course_number] = course_uri, and the same for the
\* section: the entity made for a key is entered in the dictionary.
AssignEntity(dictionary, key, uri) == Put(dictionary, key, uri)

\* The files are opened.
CourseStart ==
    /\ driver = "courses"
    /\ pc = "start"
    /\ pc' = "taught"
    /\ add_file' = {} /\ exc_file' = <<>> /\ log_file' = <<>> /\ pos_file' = <<>>
    /\ add_ufid' = {}
    /\ UNCHANGED <<driver, lvars, run, vivo, clock, next_uri, sub_file, action_report, batch,
                   deptid_dictionary, ufid_dictionary, row, gvars, pvars, course_csv,
                   taught_dictionary, term_dictionary, course_dictionary,
                   section_dictionary, todo>>

\* make_taught_dictionary: term_name raises out of it, and out of the driver.
MakeTaughtDictionary ==
    IF \E i \in DOMAIN course_csv : term_name(course_csv[i].UF_TERM).raised
    THEN pc' = "aborted" /\ UNCHANGED taught_dictionary
    ELSE /\ pc' = "dictionaries"
         /\ taught_dictionary' = [i \in DOMAIN course_csv |-> make_taught_data(course_csv[i])]

CourseTaught ==
    /\ driver = "courses"
    /\ pc = "taught"
    /\ MakeTaughtDictionary
    /\ UNCHANGED <<driver, lvars, run, vivo, clock, next_uri, add_file, sub_file, exc_file,
                   log_file, action_report, batch, deptid_dictionary, ufid_dictionary,
                   row, gvars, pvars, course_csv, term_dictionary, course_dictionary,
                   section_dictionary, todo, add_ufid, pos_file>>

\* The dictionaries of VIVO are made.
CourseDictionariesWith(result) ==
    /\ driver = "courses"
    /\ pc = "dictionaries"
    /\ pc' = "process"
    /\ term_dictionary' = make_term_dictionary(vivo)
    /\ course_dictionary' = DictOf(bindings_read(result))
    /\ section_dictionary' = make_section_dictionary(vivo)
    /\ ufid_dictionary' = make_ufid_dictionary(vivo)
    /\ todo' = DOMAIN taught_dictionary
    /\ UNCHANGED <<driver, lvars, run, vivo, clock, next_uri, add_file, sub_file, exc_file,
                   log_file, action_report, batch, deptid_dictionary, row, gvars, pvars,
                   course_csv, taught_dictionary, add_ufid, pos_file>>

\* The dictionaries are made with the query of make_course_dictionary answered.
CourseDictionaries == CourseDictionariesWith(QueryResult(course_query(vivo)))

\* The dictionaries are made with any result the query interface may return.
CourseDictionariesAnyResult ==
    \E result \in vivo_sparql_query(course_query(vivo)) : CourseDictionariesWith(result)

\* The main loop takes up a row of taught_dictionary.keys().
CourseRow ==
    /\ driver = "courses"
    /\ pc = "process"
    /\ \E r \in todo :
        LET taught_data == taught_dictionary[r]
        IN /\ todo' = todo \ {r}
           /\ IF taught_data["ufid"] \notin DOMAIN ufid_dictionary
              THEN /\ exc_file' = Append(exc_file, <<"No such instructor on row", ToString(r),
                                                     "UFID = ", taught_data["ufid"]>>)
                   /\ add_ufid' = add_ufid \cup {taught_data["ufid"]}
                   /\ batch' = Put(batch, r, [add |-> {}, sub |-> {}])
                   /\ UNCHANGED <<add_file, log_file, next_uri, taught_dictionary,
                                  course_dictionary, section_dictionary>>
              ELSE IF taught_data["term_name"] \notin DOMAIN term_dictionary
              THEN /\ exc_file' = Append(exc_file, <<"No such term on row", ToString(r),
                                                     "Term = ", taught_data["term_name"]>>)
                   /\ batch' = Put(batch, r, [add |-> {}, sub |-> {}])
                   /\ taught_dictionary' =
                         [taught_dictionary EXCEPT ![r] =
                             [person_uri |-> ufid_dictionary[taught_data["ufid"]]] @@ @]
                   /\ UNCHANGED <<add_file, log_file, next_uri, add_ufid,
                                  course_dictionary, section_dictionary>>
              ELSE
              LET data1 == [person_uri |-> ufid_dictionary[taught_data["ufid"]],
                            term_uri |-> term_dictionary[taught_data["term_name"]]]
                           @@ taught_data
                  course_new == data1["course_number"] \notin DOMAIN course_dictionary
                  course == make_course_rdf(data1, next_uri, clock)
                  n1 == IF course_new THEN course.n ELSE next_uri
                  course_uri == IF course_new THEN course.course_uri
                                ELSE course_dictionary[data1["course_number"]]
                  data2 == [course_new |-> course_new, course_uri |-> course_uri] @@ data1
                  section_new == data2["section_name"] \notin DOMAIN section_dictionary
                  section == make_section_rdf(data2, n1, clock)
                  section_uri == IF section_new THEN section.section_uri
                                 ELSE section_dictionary[data2["section_name"]]
                  rdf == (IF course_new THEN course.rdf ELSE {})
                         \cup (IF section_new THEN section.rdf ELSE {})
              IN /\ add_file' = add_file \cup rdf
                 /\ batch' = Put(batch, r, [add |-> rdf, sub |-> {}])
                 /\ log_file' = log_file
                        \o (IF course_new
                            THEN << <<"Add course", data2["course_name"], "at", course_uri>> >>
                            ELSE <<>>)
                        \o (IF section_new
                            THEN << <<"Add section", data2["section_name"], "at", section_uri>> >>
                            ELSE <<>>)
                 /\ next_uri' = IF section_new THEN section.n ELSE n1
                 /\ course_dictionary' =
                       AssignEntity(course_dictionary, data2["course_number"], course_uri)
                 /\ section_dictionary' =
                       AssignEntity(section_dictionary, data2["section_name"], section_uri)
                 /\ taught_dictionary' =
                       [taught_dictionary EXCEPT ![r] = [section_uri |-> section_uri] @@ data2]
                 /\ UNCHANGED <<exc_file, add_ufid>>
    /\ clock' = clock + 1
    /\ UNCHANGED <<driver, lvars, pc, run, vivo, sub_file, action_report, deptid_dictionary,
                   ufid_dictionary, row, gvars, pvars, course_csv, term_dictionary,
                   pos_file>>

\* The position file is written for the instructors not in VIVO, and the
\* files are closed.
CourseFinish ==
    /\ driver = "courses"
    /\ pc = "process"
    /\ todo = {}
    /\ pc' = "done"
    /\ pos_file' = [i \in DOMAIN Sorted(add_ufid) |->
                       <<"NULL", Sorted(add_ufid)[i], "NULL", "NULL", "NULL", "NULL",
                         "NULL", "0">>]
    /\ UNCHANGED <<driver, lvars, run, vivo, clock, next_uri, add_file, sub_file, exc_file,
                   log_file, action_report, batch, deptid_dictionary, ufid_dictionary,
                   row, gvars, pvars, course_csv, taught_dictionary, term_dictionary,
                   course_dictionary, section_dictionary, todo, add_ufid>>

CourseNext == CourseStart \/ CourseTaught \/ CourseDictionaries \/ CourseRow \/ CourseFinish

----------------------------------------------------------------------------
(* The inputs of course ingest *)

CourseBase ==
    {<<"per1", "ufVivo:ufid", "u1">>,
     <<"termS", "rdf:type", "vivo:AcademicTerm">>, <<"termS", "rdfs:label", "Spring 2014">>,
     <<"termF", "rdf:type", "vivo:AcademicTerm">>, <<"termF", "rdfs:label", "Fall 2014">>}

\* The course ABC1000 and its section of spring 2014, as VIVO holds them.
CourseInVivo ==
    {<<"crs1", "rdf:type", "ufVivo:Course">>,
     <<"crs1", "ufVivo:courseNum", "ABC1000">>,
     <<"crs1", "rdfs:label", "ABC1000 Intro To Things">>,
     <<"sec1", "rdf:type", "ufVivo:CourseSection">>,
     <<"sec1", "rdfs:label", "ABC1000 Spring 2014 001">>,
     <<"sec1", "ufVivo:sectionForCourse", "crs1">>}

\* A section of spring 2014 of a course VIVO holds without its course number.
SectionInVivo ==
    {<<"crs2", "rdf:type", "ufVivo:Course">>,
     <<"crs2", "rdfs:label", "XYZ2000 Intro To Things">>,
     <<"sec2", "rdf:type", "ufVivo:CourseSection">>,
     <<"sec2", "rdfs:label", "XYZ2000 Spring 2014 001">>,
     <<"sec2", "ufVivo:sectionForCourse", "crs2">>}

CourseGraphs == {CourseBase, CourseBase \cup CourseInVivo, CourseBase \cup SectionInVivo}

CourseRows ==
    {[UF_UFID |-> u, UF_TERM |-> t, UF_COURSE_CD |-> c, UF_COURSE_NAME |-> "INTRO TO THINGS",
      UF_SECTION |-> "001"] :
        u \in {"u1", "u2short"}, t \in {"20141", "20148", "20146", "20142"},
        c \in {"ABC1000", "XYZ2000"}}

InitCourse ==
    /\ driver = "courses"
    /\ InitLibrary
    /\ pc = "start"
    /\ run = 1
    /\ vivo \in CourseGraphs
    /\ course_csv \in Files(CourseRows)
    /\ clock = 1
    /\ next_uri = 1
    /\ add_file = {} /\ sub_file = {} /\ exc_file = <<>> /\ log_file = <<>>
    /\ action_report = <<>> /\ batch = <<>>
    /\ deptid_dictionary = <<>> /\ ufid_dictionary = <<>>
    /\ row = 0
    /\ taught_dictionary = <<>> /\ term_dictionary = <<>>
    /\ course_dictionary = <<>> /\ section_dictionary = <<>>
    /\ todo = {} /\ add_ufid = {} /\ pos_file = <<>>
    /\ InitGrants
    /\ InitPeople

\* One run of course ingest.
SpecCourse == InitCourse /\ [][CourseNext]_vars

----------------------------------------------------------------------------
(* Properties of course ingest *)

\* The rows of the file whose term has no name, or a name VIVO has no term of.
UnresolvedTerm(r) ==
    \/ term_name(course_csv[r].UF_TERM).raised
    \/ term_name(course_csv[r].UF_TERM).name \notin DOMAIN make_term_dictionary(vivo)

\* C8: a row whose term cannot be resolved does not end the run; when its
\* instructor is in VIVO, the row is taken up, is recorded in the exception
\* file, and has no RDF written.
C8_UnresolvedTermSkipped ==
    driver = "courses" =>
        /\ pc # "aborted"
        /\ \A r \in DOMAIN batch :
              (UnresolvedTerm(r) /\ taught_dictionary[r]["ufid"] \in DOMAIN ufid_dictionary)
                 => /\ batch[r].add = {}
                    /\ \E i \in DOMAIN exc_file :
                          exc_file[i][1] = "No such term on row" /\ exc_file[i][2] = ToString(r)

\* The row r of the course file had a course made for it.
CourseCreated(r) == \E t \in batch[r].add : t[2] = "rdf:type" /\ t[3] = "ufVivo:Course"

\* The row r of the course file had a section made for it.
SectionCreated(r) == \E t \in batch[r].add : t[2] = "rdf:type" /\ t[3] = "ufVivo:CourseSection"

\* The rows the main loop took to the end: instructor and term are in VIVO.
RowsResolved == {r \in DOMAIN batch : "section_uri" \in DOMAIN taught_dictionary[r]}

\* C22: in a run of course ingest a course is made at most once for a
\* course number and a section at most once for a section name, none is
\* made for a number or name VIVO has, and every row resolves to the entity
\* of its number and name, the one made earlier in the run included.
C22_CreatedAtMostOnce ==
    driver = "courses" =>
        /\ \A r1, r2 \in DOMAIN batch :
              /\ (/\ CourseCreated(r1) /\ CourseCreated(r2)
                  /\ taught_dictionary[r1]["course_number"] = taught_dictionary[r2]["course_number"])
                    => r1 = r2
              /\ (/\ SectionCreated(r1) /\ SectionCreated(r2)
                  /\ taught_dictionary[r1]["section_name"] = taught_dictionary[r2]["section_name"])
                    => r1 = r2
        /\ \A r \in DOMAIN batch :
              /\ CourseCreated(r) =>
                    taught_dictionary[r]["course_number"] \notin DOMAIN make_course_dictionary(vivo)
              /\ SectionCreated(r) =>
                    taught_dictionary[r]["section_name"] \notin DOMAIN make_section_dictionary(vivo)
        /\ \A r \in RowsResolved :
              /\ taught_dictionary[r]["course_uri"]
                    = Get(course_dictionary, taught_dictionary[r]["course_number"], None)
              /\ taught_dictionary[r]["section_uri"]
                    = Get(section_dictionary, taught_dictionary[r]["section_name"], None)
              /\ CourseCreated(r) =>
                    <<taught_dictionary[r]["course_uri"], "rdf:type", "ufVivo:Course">> \in batch[r].add
              /\ SectionCreated(r) =>
                    <<taught_dictionary[r]["section_uri"], "rdf:type", "ufVivo:CourseSection">>
                        \in batch[r].add

\* Two rows of one course VIVO does not hold, in different terms, have been
\* processed: the first made the course, and the second made only its
\* section, for the course of the first.
C22_Witness ==
    /\ driver = "courses" /\ pc = "done"
    /\ \E r1, r2 \in RowsResolved :
          /\ CourseCreated(r1) /\ ~CourseCreated(r2) /\ SectionCreated(r2)
          /\ taught_dictionary[r2]["course_uri"] = taught_dictionary[r1]["course_uri"]

\* The course-level teacher roles written for row r.
CourseRoles(r) == {t[1] : t \in {u \in batch[r].add : u[2] = "ufVivo:courseRoleOf"}}

\* C23: the row that makes a course writes exactly one course-level
\* TeacherRole, realized in that course, and a row that makes no course,
\* because VIVO holds it or an earlier row made it, writes none.
C23_OneCourseRolePerCourse ==
    driver = "courses" =>
        \A r \in DOMAIN batch :
            IF CourseCreated(r)
            THEN /\ Cardinality(CourseRoles(r)) = 1
                 /\ \A role \in CourseRoles(r) :
                       <<role, "vivo:roleRealizedIn", taught_dictionary[r]["course_uri"]>>
                           \in batch[r].add
            ELSE CourseRoles(r) = {}

\* The natural keys the main loop of the driver runs over: the rows of
\* taught_dictionary for courses, the keys of the action report otherwise.
NaturalKeys == IF driver = "courses" THEN DOMAIN taught_dictionary ELSE DOMAIN action_report

\* Key k sorts before key k2: rows are numbers, pcns and ufids are strings.
SortsBefore(k, k2) ==
    IF driver = "courses" THEN k < k2
    ELSE \E i, j \in DOMAIN KeyOrder : KeyOrder[i] = k /\ KeyOrder[j] = k2 /\ i < j

\* C17: the keys a driver has processed so far all sort before the keys it
\* has yet to process, so the keys are taken up in ascending order whatever
\* order the dictionary hands them out in.
C17_KeysInAscendingOrder ==
    \A k \in DOMAIN batch : \A k2 \in NaturalKeys \ DOMAIN batch : SortsBefore(k, k2)

----------------------------------------------------------------------------
(* The lookup dictionaries when a query may not come through *)

InitQuery == InitGrant(Files(UpdateRows), GrantGraphs) \/ InitCourse

\* One run of grant ingest or of course ingest, in which the query of
\* make_grant_dictionary or of make_course_dictionary may return a result
\* without bindings.
NextQuery ==
    \/ GrantStartAnyResult \/ ReadRow \/ GrantReport \/ ProcessPcn \/ GrantFinish
    \/ CourseStart \/ CourseTaught \/ CourseDictionariesAnyResult \/ CourseRow \/ CourseFinish

SpecQuery == InitQuery /\ [][NextQuery]_vars

\* C18: a builder never hands back an empty mapping for a query that did not
\* come through, so no grant VIVO holds is classified as to be added, and no
\* course VIVO holds is made a second time.
C18_ExistingNeverCreateOnly ==
    /\ (driver = "grants" /\ InMainLoop) =>
          \A pcn \in DOMAIN action_report \cap DOMAIN make_grant_dictionary(vivo) :
              action_report[pcn] # 1
    /\ driver = "courses" =>
          \A r \in DOMAIN batch :
              taught_dictionary[r]["course_number"] \in DOMAIN make_course_dictionary(vivo)
                  => ~CourseCreated(r)

----------------------------------------------------------------------------
(* person_ingest.py, version 2.00: prepare_people and the main loop *)

\* vivopeople.get_position_type, on the salary plans of the model.
get_position_type(salary_plan) ==
    CASE salary_plan = "CPFI" -> "postdoc"
      [] salary_plan = "FA09" -> "faculty"
      [] salary_plan = "TA09" -> "non-academic"
      [] OTHER -> None

person_type_table ==
    ("faculty" :> "vivo:FacultyMember") @@ ("postdoc" :> "vivo:Postdoc")
    @@ ("courtesy-faculty" :> "vivo:CourtesyFaculty")
    @@ ("clinical-faculty" :> "ufv:ClinicalFaculty") @@ ("housestaff" :> "ufv:Housestaff")
    @@ ("temp-faculty" :> "ufv:TemporaryFaculty") @@ ("non-academic" :> "vivo:NonAcademic")

\* vivopeople.improve_jobcode_description, on the job codes of the model.
improve_jobcode_description(s) ==
    CASE s = "PROF" -> "Professor"
      [] s = "AST PROF" -> "Assistant Professor"
      [] s = "ASST PROF" -> "Asst Professor"
      [] OTHER -> s

\* str.title() of a display name of the model, as the sequence of its
\* words, commas and spaces.
title(s) ==
    CASE s = "SMITH,JOHN" -> <<"Smith", ",", "John">>
      [] s = "LEE,ANN" -> <<"Lee", ",", "Ann">>
      [] OTHER -> <<s>>

\* str.find: the index, from 0, of the first c in s, or -1.
find(s, c) ==
    IF \E i \in DOMAIN s : s[i] = c
    THEN (CHOOSE i \in DOMAIN s : s[i] = c /\ \A j \in 1..(i - 1) : s[j] # c) - 1
    ELSE -1

\* One call of comma_space on s, a sequence of characters: whether it calls
\* itself, what it puts before the result of that call, and the s[k+1:]
\* it passes.
comma_space_call(s) ==
    LET k == find(s, ",")
    IN IF k > -1 /\ k < Len(s) - 1 /\ s[k + 2] # " "
       THEN [recurse |-> TRUE, before |-> SubSeq(s, 1, k) \o <<",", " ">>,
             rest |-> SubSeq(s, k + 2, Len(s))]
       ELSE [recurse |-> FALSE, before |-> <<>>, rest |-> s]

RECURSIVE comma_space(_)
comma_space(s) ==
    LET call == comma_space_call(s)
    IN IF call.recurse THEN call.before \o comma_space(call.rest) ELSE s

\* vivofoundation.find_vivo_uri: the entity with the value, or None.
find_vivo_uri(G, predicate, value) ==
    IF Subjects(G, predicate, value) = {} THEN None
    ELSE CHOOSE uri \in Subjects(G, predicate, value) : TRUE

\* The entry key -> value when the value is not empty.
Given(key, value) == IF value = "" THEN <<>> ELSE key :> value

\* The body of the loop of prepare_people for one position row: the person
\* made of it and what it wrote to the exception file.  shelves holds the
\* privacy and contact data and the exception lists.
prepare_person(position, G, shelves) ==
    LET ufid == position.UFID
        uri == find_vivo_uri(G, "ufv:ufid", ufid)
        hr_position == position.HR_POSITION = "1"
        deptid_ok == ok_deptid(position.DEPTID, shelves.deptid_exceptions)
        depturi == find_vivo_uri(G, "ufv:deptID", position.DEPTID)
        position_type == IF hr_position THEN get_position_type(position.SAL_ADMIN_PLAN)
                         ELSE None
        has_contact == ufid \in DOMAIN shelves.contact
        info == shelves.contact[ufid]
        home_ok == ok_deptid(info.HOME_DEPT, shelves.deptid_exceptions)
        homedept_uri == find_vivo_uri(G, "ufv:deptID", info.HOME_DEPT)
        description == improve_jobcode_description(position.JOBCODE_DESCRIPTION)
        start_ok == position.START_DATE \in {"2010-01-01", "2012-07-01"}
        end_ok == position.END_DATE \in {"2015-06-30"}
        exc == (IF ufid \in shelves.ufid_exceptions
                THEN << <<ufid, "in ufid_exceptions">> >> ELSE <<>>)
            \o (IF uri # None /\ uri \in shelves.uri_exceptions
                THEN << <<uri, "in uri_exceptions">> >> ELSE <<>>)
            \o (IF ~deptid_ok
                THEN << <<ufid, "has position in department", position.DEPTID,
                          "on the department exception list">> >>
                ELSE IF depturi = None
                THEN << <<ufid, "has deptid", position.DEPTID, "not found">> >>
                ELSE <<>>)
            \o (IF hr_position /\ position_type = None
                THEN << <<ufid, "invalid salary plan", position.SAL_ADMIN_PLAN>> >>
                ELSE <<>>)
            \o (IF position_type # None /\ position_type \notin DOMAIN person_type_table
                THEN << <<ufid, "has position type", position_type,
                          "not in person_type_table">> >>
                ELSE <<>>)
            \o (IF ufid \notin DOMAIN shelves.privacy
                THEN << <<ufid, "not found in privacy data">> >>
                ELSE IF shelves.privacy[ufid].UF_PROTECT_FLG = "Y"
                THEN << <<ufid, "has protect flag Y">> >> ELSE <<>>)
            \o (IF ~has_contact THEN << <<ufid, "not found in contact data">> >>
                ELSE IF ~home_ok THEN << <<ufid, "has home department on exception list">> >>
                ELSE IF homedept_uri = None
                THEN << <<ufid, "has home department deptid", info.HOME_DEPT,
                          "not found in VIVO">> >>
                ELSE <<>>)
            \o (IF position.START_DATE # "" /\ ~start_ok
                THEN << <<ufid, "invalid start date", position.START_DATE>> >> ELSE <<>>)
            \o (IF position.END_DATE # "" /\ ~end_ok
                THEN << <<ufid, "invalid end date", position.END_DATE>> >> ELSE <<>>)
            \o (IF position.JOBCODE_DESCRIPTION # "" /\ description \in shelves.position_exceptions
                THEN << <<ufid, "has position description", description,
                          "found in position exceptions">> >>
                ELSE <<>>)
        person ==
            (IF ufid \in shelves.ufid_exceptions THEN <<>> ELSE [ufid |-> ufid])
            @@ [uri |-> uri, hr_position |-> hr_position, position_type |-> position_type]
            @@ (IF deptid_ok THEN [position_deptid |-> position.DEPTID,
                                   position_depturi |-> depturi] ELSE <<>>)
            @@ (IF position_type \in DOMAIN person_type_table
                THEN [person_type |-> person_type_table[position_type]] ELSE <<>>)
            @@ (IF ufid \in DOMAIN shelves.privacy
                THEN [uf_privacy |-> shelves.privacy[ufid].UF_PROTECT_FLG] ELSE <<>>)
            @@ (IF has_contact
                THEN Given("first_name", Title(info.FIRST_NAME))
                     @@ Given("last_name", Title(info.LAST_NAME))
                     @@ Given("middle_name", Title(info.MIDDLE_NAME))
                     @@ Given("name_suffix", Title(info.NAME_SUFFIX))
                     @@ Given("name_prefix", Title(info.NAME_PREFIX))
                     @@ Given("display_name", Join(comma_space(title(info.DISPLAY_NAME))))
                     @@ Given("gatorlink", info.GATORLINK)
                     @@ (IF info.WORKINGTITLE = "" THEN <<>>
                         ELSE IF IsUpper(info.WORKINGTITLE)
                         THEN [preferred_title |-> description]
                         ELSE [preferred_title |-> info.WORKINGTITLE])
                     @@ (IF info.UF_BUSINESS_EMAIL = "" THEN <<>>
                         ELSE [primary_email |-> Join(repair_email(Chars(info.UF_BUSINESS_EMAIL)))])
                     @@ (IF info.UF_BUSINESS_PHONE = "" THEN <<>>
                         ELSE [phone |-> repair_phone_number(info.UF_BUSINESS_PHONE)])
                     @@ (IF info.UF_BUSINESS_FAX = "" THEN <<>>
                         ELSE [fax |-> repair_phone_number(info.UF_BUSINESS_FAX)])
                     @@ (IF home_ok THEN [home_deptid |-> info.HOME_DEPT,
                                          homedept_uri |-> homedept_uri] ELSE <<>>)
                ELSE <<>>)
            @@ (IF position.START_DATE # "" /\ start_ok
                THEN [start_date |-> position.START_DATE] ELSE <<>>)
            @@ (IF position.END_DATE # "" /\ end_ok
                THEN [end_date |-> position.END_DATE] ELSE <<>>)
            @@ (IF position.JOBCODE_DESCRIPTION # "" THEN [description |-> description]
                ELSE <<>>)
    IN [person |-> person, exc |-> exc, anyerrors |-> exc # <<>>]

\* The position rows of the model, in the order sorted() puts them in: rows
\* are compared as dictionaries, by DEPTID, END_DATE, HR_POSITION,
\* JOBCODE_DESCRIPTION, SAL_ADMIN_PLAN, START_DATE and UFID in turn.
PositionRows ==
    <<HrRow("u2", "d1", "PROF", "FA09", "0"),
      HrRow("u2", "d1", "AST PROF", "FA09", "1"),
      HrRow("u1", "d1", "PROF", "FA09", "1"),
      HrRow("u2", "d1", "PROF", "FA09", "1"),
      HrRow("u2", "d2", "PROF", "CPFI", "1"),
      HrRow("u2", "dX", "PROF", "OPSN", "1")>>

\* The place of a position row in the order of sorted().
Rank(position) == CHOOSE i \in DOMAIN PositionRows : PositionRows[i] = position

\* sorted(positions.items(), key=itemgetter(1)): the rows of the file by the
\* order of their positions, equal positions in the order of their rows.
RECURSIVE sorted_items(_, _)
sorted_items(positions, rows) ==
    IF rows = {} THEN <<>>
    ELSE LET first == CHOOSE i \in rows : \A j \in rows :
                         \/ Rank(positions[i]) < Rank(positions[j])
                         \/ (Rank(positions[i]) = Rank(positions[j]) /\ i <= j)
         IN <<first>> \o sorted_items(positions, rows \ {first})

\* prepare_people over the rows in order: people gets an entry, keyed by the
\* row, for every row without errors.
RECURSIVE prepare_people(_, _, _, _, _)
prepare_people(positions, order, G, shelves, result) ==
    IF order = <<>> THEN result
    ELSE LET p == prepare_person(positions[Head(order)], G, shelves)
         IN prepare_people(positions, Tail(order), G, shelves,
                [people |-> IF p.anyerrors THEN result.people
                            ELSE Put(result.people, Head(order), p.person),
                 exc |-> result.exc \o p.exc])

\* add_dtv and add_dti: the interval of the dates given, its URI, and the
\* next unused identifier.
add_dti(start, end, n) ==
    LET start_uri == IF start = None THEN None ELSE Uri(n)
        n1 == IF start = None THEN n ELSE n + 1
        end_uri == IF end = None THEN None ELSE Uri(n1)
        n2 == IF end = None THEN n1 ELSE n1 + 1
        dtv(uri, date) ==
            IF date = None THEN {}
            ELSE {<<uri, "rdf:type", "vivo:DateTimeValue">>,
                  <<uri, "vivo:dateTime", hr_isoformat(date)>>,
                  <<uri, "vivo:dateTimePrecision", "vivo:yearMonthDayPrecision">>}
    IN IF start_uri = None /\ end_uri = None
       THEN [rdf |-> {}, dti_uri |-> None, n |-> n2]
       ELSE [rdf |-> dtv(start_uri, start) \cup dtv(end_uri, end)
                     \cup {<<Uri(n2), "rdf:type", "vivo:DateTimeInterval">>}
                     \cup (IF start_uri = None THEN {}
                           ELSE {<<Uri(n2), "vivo:start", start_uri>>})
                     \cup (IF end_uri = None THEN {} ELSE {<<Uri(n2), "rdf:end", end_uri>>}),
             dti_uri |-> Uri(n2), n |-> n2 + 1]

\* add_position of person_ingest.py; raised is TRUE for the KeyError of a
\* position without description.
add_position_v2(person_uri, position, n) ==
    LET position_uri == Uri(n)
        dti == add_dti(Get(position, "start_date", None), Get(position, "end_date", None),
                       n + 1)
    IN IF "description" \notin DOMAIN position
       THEN [raised |-> TRUE, rdf |-> {}, n |-> dti.n]
       ELSE [raised |-> FALSE,
             rdf |-> dti.rdf
                     \cup {<<position_uri, "rdf:type", position["position_type"]>>,
                           <<position_uri, "rdfs:label", position["description"]>>,
                           <<position_uri, "vivo:dateTimeInterval", dti.dti_uri>>,
                           <<position_uri, "vivo:relates", person_uri>>,
                           <<position_uri, "vivo:relates", position["position_depturi"]>>},
             n |-> dti.n]

\* add_vcard: the vcard, its name, and one entity for each single entry.
add_vcard(person_uri, vcard, n) ==
    LET vcard_uri == Uri(n)
        name_uri == Uri(n + 1)
        name_table == [first_name |-> "vcard:givenName", last_name |-> "vcard:familyName",
                       middle_name |-> "vcard:additionalName",
                       name_prefix |-> "vcard:honoraryPrefix",
                       name_suffix |-> "vcard:honorarySuffix"]
        single_entry ==
            [primary_email |-> [resource |-> "vcard:hasEmail", type |-> "vcard:Email",
                                pred |-> "vcard:email"],
             fax |-> [resource |-> "vcard:hasTelephone", type |-> "vcard:Fax",
                      pred |-> "vcard:telephone"],
             preferred_title |-> [resource |-> "vcard:hasTitle", type |-> "vcard:Title",
                                  pred |-> "vcard:title"]]
        keys == SelectSeq(<<"primary_email", "fax", "preferred_title">>,
                          LAMBDA k : k \in DOMAIN vcard)
        entry(i) == single_entry[keys[i]]
    IN [rdf |-> {<<vcard_uri, "rdf:type", "vcard:Individual">>,
                 <<person_uri, "obo:ARG2000028", vcard_uri>>,
                 <<vcard_uri, "obo:ARG2000029", person_uri>>,
                 <<name_uri, "rdf:type", "vcard:Name">>,
                 <<vcard_uri, "vcard:hasName", name_uri>>}
                \cup {<<name_uri, name_table[k], vcard[k]>> :
                         k \in DOMAIN vcard \cap DOMAIN name_table}
                \cup UNION {{<<Uri(n + 1 + i), "rdf:type", entry(i).type>>,
                             <<Uri(n + 1 + i), entry(i).pred, vcard[keys[i]]>>,
                             <<vcard_uri, entry(i).resource, Uri(n + 1 + i)>>} :
                               i \in DOMAIN keys},
        n |-> n + 2 + Len(keys)]

\* add_person of person_ingest.py; raised is TRUE for the KeyError of a
\* person without person_type and for the one of add_position.
add_person_v2(person, n) ==
    LET person_uri == Uri(n)
        direct_data_preds == [ufid |-> "ufv:ufid", uf_privacy |-> "ufv:privacyFlag",
                              display_name |-> "rdfs:label", gatorlink |-> "ufv:gatorlink"]
        vcard == [k \in DOMAIN person \cap {"last_name", "first_name", "middle_name",
                                            "primary_email", "name_prefix", "name_suffix",
                                            "fax", "phone", "preferred_title"} |-> person[k]]
        position == [k \in DOMAIN person \cap {"start_date", "description", "end_date",
                                               "position_depturi", "position_type"}
                        |-> person[k]]
        v == add_vcard(person_uri, vcard, n + 1)
        p == add_position_v2(person_uri, position, v.n)
    IN IF "person_type" \notin DOMAIN person THEN [raised |-> TRUE, rdf |-> {}, n |-> n + 1]
       ELSE IF p.raised THEN [raised |-> TRUE, rdf |-> {}, n |-> p.n]
       ELSE [raised |-> FALSE,
             rdf |-> {<<person_uri, "rdf:type", person["person_type"]>>,
                      <<person_uri, "rdf:type", "ufv:UFEntity">>,
                      <<person_uri, "rdf:type", "ufv:UFCurrentEntity">>}
                     \cup {<<person_uri, direct_data_preds[k], person[k]>> :
                              k \in DOMAIN person \cap DOMAIN direct_data_preds}
                     \cup (IF "homedept_uri" \in DOMAIN person
                           THEN {<<person_uri, "ufv:homeDept", person["homedept_uri"]>>}
                           ELSE {})
                     \cup v.rdf \cup p.rdf,
             n |-> p.n]

\* The files are opened and prepare_people is called.
PersonIngestStart ==
    /\ driver = "person_ingest"
    /\ pc = "start"
    /\ pc' = "process"
    /\ LET shelves == [privacy |-> privacy_dictionary, contact |-> contact_dictionary,
                       deptid_exceptions |-> deptid_exception_dictionary,
                       ufid_exceptions |-> ufid_exception_dictionary,
                       uri_exceptions |-> uri_exception_dictionary,
                       position_exceptions |-> {"Academic Lump Sum Payment"}]
           prepared == prepare_people(position_csv,
                           sorted_items(position_csv, DOMAIN position_csv), vivo, shelves,
                           [people |-> <<>>, exc |-> <<>>])
       IN /\ people' = prepared.people
          /\ exc_file' = prepared.exc
          /\ todo' = DOMAIN prepared.people
          /\ log_file' = << <<"Position data has", Cardinality(DOMAIN prepared.people),
                              "people">> >>
    /\ add_file' = {} /\ sub_file' = {} /\ ardf' = {} /\ batch' = <<>>
    /\ UNCHANGED <<driver, lvars, run, vivo, clock, next_uri, action_report, deptid_dictionary,
                   ufid_dictionary, row, dsp_data, dsp_dictionary, error_count,
                   sponsor_dictionary, date_dictionary, datetime_interval_dictionary,
                   grant_dictionary, position_csv, contact_csv, privacy_csv, hr_dictionary,
                   contact_dictionary, privacy_dictionary, uri_exception_dictionary,
                   ufid_exception_dictionary, deptid_exception_dictionary, course_csv,
                   taught_dictionary, term_dictionary, course_dictionary,
                   section_dictionary, add_ufid, pos_file>>

\* The main loop takes up a person of people.values(): the person is
\* updated when VIVO holds one of the UFID, and added otherwise.
IngestPerson ==
    /\ driver = "person_ingest"
    /\ pc = "process"
    /\ \E r \in todo :
        LET source_person == people[r]
            added == add_person_v2(source_person, next_uri)
        IN /\ todo' = todo \ {r}
           /\ IF source_person["uri"] # None
              THEN /\ log_file' = Append(log_file,
                                         <<"Updating person at", source_person["uri"]>>)
                   /\ batch' = Put(batch, r, [add |-> {}, sub |-> {}])
                   /\ UNCHANGED <<pc, ardf, next_uri>>
              ELSE /\ log_file' = Append(log_file, <<"Adding person", source_person["ufid"]>>)
                   /\ next_uri' = added.n
                   /\ IF added.raised
                      THEN pc' = "aborted" /\ UNCHANGED <<ardf, batch>>
                      ELSE /\ ardf' = ardf \cup added.rdf
                           /\ batch' = Put(batch, r, [add |-> added.rdf, sub |-> {}])
                           /\ UNCHANGED pc
    /\ UNCHANGED <<driver, lvars, run, vivo, clock, add_file, sub_file, exc_file, action_report,
                   deptid_dictionary, ufid_dictionary, row, dsp_data, dsp_dictionary,
                   error_count, sponsor_dictionary, date_dictionary,
                   datetime_interval_dictionary, grant_dictionary, pvars, course_csv,
                   taught_dictionary, term_dictionary, course_dictionary,
                   section_dictionary, add_ufid, pos_file>>

\* The RDF is written and the files are closed.
PersonIngestFinish ==
    /\ driver = "person_ingest"
    /\ pc = "process"
    /\ todo = {}
    /\ pc' = "done"
    /\ add_file' = ardf
    /\ log_file' = Append(log_file, <<"Finished">>)
    /\ UNCHANGED <<driver, lvars, run, vivo, clock, next_uri, sub_file, exc_file, action_report,
                   batch, deptid_dictionary, ufid_dictionary, row, gvars, pvars, tvars>>

\* The departments of VIVO in the ontology of version 1.6, and the person of
\* UFID u1.
PersonIngestGraphs ==
    {{<<"org1", "ufv:deptID", "d1">>, <<"org2", "ufv:deptID", "d2">>} \cup a :
        a \in {{}, {<<"per1", "ufv:ufid", "u1">>}}}

\* The contact shelves of the model.
ContactShelves ==
    {("u1" :> ContactSame)
        @@ ("u2" :> ContactRow("u2", "Ann", "Lee", "LEE,ANN", "Research Fellow", "", "",
                               " alee@ufl.edu ", "alee", home)) : home \in {"d1", "dX"}}
    \cup {"u1" :> ContactSame}

InitPersonIngest ==
    /\ driver = "person_ingest"
    /\ InitLibrary
    /\ pc = "start"
    /\ run = 1
    /\ vivo \in PersonIngestGraphs
    /\ position_csv \in Files({PositionRows[i] : i \in DOMAIN PositionRows})
    /\ contact_dictionary \in ContactShelves
    /\ privacy_dictionary \in {("u1" :> PrivacyRow("u1", "N", "N"))
                                  @@ ("u2" :> PrivacyRow("u2", "N", protect)) :
                                      protect \in {"N", "Y"}}
    /\ \E e \in DOMAIN ExceptionLists :
          /\ uri_exception_dictionary = ExceptionLists[e].uri
          /\ ufid_exception_dictionary = ExceptionLists[e].ufid
          /\ deptid_exception_dictionary = ExceptionLists[e].deptid
    /\ contact_csv = <<>> /\ privacy_csv = <<>> /\ hr_dictionary = <<>>
    /\ people = <<>>
    /\ clock = 1
    /\ next_uri = 1
    /\ add_file = {} /\ sub_file = {} /\ exc_file = <<>> /\ log_file = <<>>
    /\ action_report = <<>> /\ batch = <<>>
    /\ deptid_dictionary = <<>> /\ ufid_dictionary = <<>>
    /\ row = 0
    /\ InitGrants
    /\ InitCourses

\* One run of person_ingest.py.
SpecPersonIngest ==
    InitPersonIngest /\ [][PersonIngestStart \/ IngestPerson \/ PersonIngestFinish]_vars

----------------------------------------------------------------------------
(* Properties of person_ingest.py *)

\* C20: prepare_people returns at most one entry for a UFID, and the main
\* loop adds or updates the person of a UFID at most once in a run.
C20_OneEntryPerUfid ==
    driver = "person_ingest" =>
        /\ \A r1, r2 \in DOMAIN people :
              people[r1]["ufid"] = people[r2]["ufid"] => r1 = r2
        /\ \A i, j \in DOMAIN log_file :
              (/\ log_file[i][1] \in {"Adding person", "Updating person at"}
               /\ log_file[i] = log_file[j]) => i = j

----------------------------------------------------------------------------
(* Properties of course ingest and person ingest together *)

\* The UFIDs of the course file that VIVO has no person of.
InstructorsNotInVivo ==
    {taught_dictionary[r]["ufid"] : r \in {q \in DOMAIN taught_dictionary :
        taught_dictionary[q]["ufid"] \notin DOMAIN ufid_dictionary}}

\* C24: course ingest writes one record to the position file for each
\* instructor VIVO has no person of, with HR_POSITION 0, and no other
\* record; person ingest adds a case 1 person with HR_POSITION 0 without a
\* position, and every other case 1 person it adds with exactly one.
C24_PositionFileAndPositions ==
    /\ (driver = "courses" /\ pc = "done") =>
          /\ \A ufid \in InstructorsNotInVivo :
                \E i \in DOMAIN pos_file :
                    /\ pos_file[i][2] = ufid /\ pos_file[i][8] = "0"
                    /\ \A j \in DOMAIN pos_file : pos_file[j][2] = ufid => j = i
          /\ \A i \in DOMAIN pos_file : pos_file[i][2] \in InstructorsNotInVivo
    /\ driver = "people" =>
          \A ufid \in DOMAIN batch :
              (ProcessedAsNew(ufid) /\ PersonAdded(ufid)) =>
                  Cardinality(NewPositions(ufid))
                     = IF hr_dictionary[ufid]["HR_POSITION"] = "0" THEN 0 ELSE 1

\* Person ingest has added a person with HR_POSITION 0, without a position,
\* and a person with an HR position, with one.
C24_Witness ==
    /\ driver = "people" /\ pc = "done"
    /\ \E ufid \in DOMAIN batch :
          /\ ProcessedAsNew(ufid) /\ PersonAdded(ufid)
          /\ hr_dictionary[ufid]["HR_POSITION"] = "0" /\ NewPositions(ufid) = {}

----------------------------------------------------------------------------
(* Library functions called on their own *)

\* The variables of the drivers, which a function called on its own leaves
\* alone.
InitNoDriver ==
    /\ run = 1 /\ vivo = {} /\ clock = 1 /\ next_uri = 1
    /\ add_file = {} /\ sub_file = {} /\ exc_file = <<>> /\ log_file = <<>>
    /\ action_report = <<>> /\ batch = <<>>
    /\ deptid_dictionary = <<>> /\ ufid_dictionary = <<>> /\ row = 0
    /\ InitGrants /\ InitPeople /\ InitCourses

\* The longest string a function is called on.
MaxLen == 4

\* The strings of at most n characters of the alphabet.
StringsOver(alphabet, n) == UNION {[1..m -> alphabet] : m \in 0..n}

(* person_ingest.comma_space *)

CommaSpaceStrings == StringsOver({"a", ",", " "}, MaxLen)

InitCommaSpace ==
    /\ driver = "comma_space"
    /\ pc = "call"
    /\ arg \in CommaSpaceStrings
    /\ frames = <<arg>>
    /\ count = 0 /\ responses = <<>> /\ returned = None
    /\ InitNoDriver

\* The innermost call finds its comma: it calls itself on s[k+1:], or
\* returns its s.
CommaSpaceCall ==
    /\ driver = "comma_space"
    /\ pc = "call"
    /\ LET call == comma_space_call(frames[Len(frames)])
       IN IF call.recurse
          THEN /\ frames' = Append(frames, call.rest)
               /\ UNCHANGED <<pc, returned>>
          ELSE /\ returned' = frames[Len(frames)]
               /\ frames' = SubSeq(frames, 1, Len(frames) - 1)
               /\ pc' = IF Len(frames) = 1 THEN "done" ELSE "return"
    /\ UNCHANGED <<driver, arg, count, responses, run, vivo, clock, next_uri, add_file,
                   sub_file, exc_file, log_file, action_report, batch,
                   deptid_dictionary, ufid_dictionary, row, gvars, pvars, tvars>>

\* The call that was waiting puts s[0:k] + ', ' before what it received and
\* returns.
CommaSpaceReturn ==
    /\ driver = "comma_space"
    /\ pc = "return"
    /\ returned' = comma_space_call(frames[Len(frames)]).before \o returned
    /\ frames' = SubSeq(frames, 1, Len(frames) - 1)
    /\ pc' = IF Len(frames) = 1 THEN "done" ELSE "return"
    /\ UNCHANGED <<driver, arg, count, responses, run, vivo, clock, next_uri, add_file,
                   sub_file, exc_file, log_file, action_report, batch,
                   deptid_dictionary, ufid_dictionary, row, gvars, pvars, tvars>>

NextCommaSpace == CommaSpaceCall \/ CommaSpaceReturn

\* A call that can take its next step takes it.
SpecCommaSpace ==
    InitCommaSpace /\ [][NextCommaSpace]_vars /\ WF_vars(NextCommaSpace)

\* The characters of s that are no spaces, in order.
NoSpaces(str) == SelectSeq(str, LAMBDA c : c # " ")

\* C25: comma_space returns on every string; in what it returns every comma
\* that is not the last character has a space after it, and the other
\* characters are those of the argument, in order.
C25_CommaSpace ==
    /\ <>(driver = "comma_space" => pc = "done")
    /\ []((driver = "comma_space" /\ pc = "done") =>
            /\ \A i \in 1..(Len(returned) - 1) :
                  returned[i] = "," => returned[i + 1] = " "
            /\ NoSpaces(returned) = NoSpaces(arg)
            /\ Len(returned) >= Len(arg))

(* person-ingest.fix_email and vivopeople.repair_email *)

\* The longest string between what is put around it.
MaxEmail == 7

\* What test_fix_email.py puts around an address: nothing, a space on both
\* sides, markup after it.
Around == {<< <<>>, <<>> >>, << <<" ">>, <<" ">> >>, << <<>>, <<"<", "a">> >>}

EmailStrings ==
    {a[1] \o str \o a[2] : a \in Around, str \in StringsOver({"a", ".", "@"}, MaxEmail)}
    \cup {<<"a", ".", "a", ".", "a", "@", "a", ".", "a">>}

InitEmail ==
    /\ driver \in {"fix_email", "repair_email"}
    /\ pc = "call"
    /\ arg \in EmailStrings
    /\ frames = <<>>
    /\ count = 0 /\ responses = <<>> /\ returned = None
    /\ InitNoDriver

FixEmail ==
    /\ driver = "fix_email"
    /\ pc = "call"
    /\ returned' = fix_email(arg)
    /\ pc' = "done"
    /\ UNCHANGED <<driver, arg, frames, count, responses, run, vivo, clock, next_uri,
                   add_file, sub_file, exc_file, log_file, action_report, batch,
                   deptid_dictionary, ufid_dictionary, row, gvars, pvars, tvars>>

RepairEmail ==
    /\ driver = "repair_email"
    /\ pc = "call"
    /\ returned' = repair_email(arg)
    /\ pc' = "done"
    /\ UNCHANGED <<driver, arg, frames, count, responses, run, vivo, clock, next_uri,
                   add_file, sub_file, exc_file, log_file, action_report, batch,
                   deptid_dictionary, ufid_dictionary, row, gvars, pvars, tvars>>

NextEmail == FixEmail \/ RepairEmail

SpecEmail == InitEmail /\ [][NextEmail]_vars

\* Words of word characters with one dot between them.
DottedWords(str) ==
    /\ str # <<>>
    /\ \A i \in DOMAIN str : str[i] \in Word \cup {"."}
    /\ str[1] # "." /\ str[Len(str)] # "."
    /\ \A i \in 1..(Len(str) - 1) : ~(str[i] = "." /\ str[i + 1] = ".")

\* A bare address: dotted words, one "@", dotted words with a dot among them.
BareAddress(str) ==
    \E k \in DOMAIN str :
        /\ str[k] = "@"
        /\ DottedWords(SubSeq(str, 1, k - 1))
        /\ DottedWords(SubSeq(str, k + 1, Len(str)))
        /\ \E j \in (k + 1)..Len(str) : str[j] = "."

\* The characters i..j of str are an address with only whitespace before it
\* and only whitespace, or markup, after it.
Embedded(str, i, j) ==
    /\ BareAddress(SubSeq(str, i, j))
    /\ \A k \in 1..(i - 1) : str[k] = " "
    /\ \/ \A k \in (j + 1)..Len(str) : str[k] = " "
       \/ str[j + 1] = "<"

EmailReturned == driver \in {"fix_email", "repair_email"} /\ pc = "done"

\* C26: fix_email and repair_email return a bare address as it is, return
\* the address that has only whitespace before it and whitespace or markup
\* after it, and return the empty string for a string with no address in it.
C26_FixEmail ==
    EmailReturned =>
        /\ BareAddress(arg) => returned = arg
        /\ \A i, j \in DOMAIN arg : Embedded(arg, i, j) => returned = SubSeq(arg, i, j)
        /\ (\A i, j \in DOMAIN arg : ~BareAddress(SubSeq(arg, i, j))) => returned = <<>>

(* vivopubs.get_pmid_from_doi *)

Dois == {"doi1", "doi2", "doi3"}

\* What a call of urlopen and the reading of the answer come to: an
\* exception (no answer, no XML, an Id element with nothing in it), or the
\* Id elements of the document.
Failure == <<"exception">>
EntrezDocuments == {<<>>, <<"pmid1">>, <<"pmid2">>}

retries == 10

pmid_none(ids) == None

\* The pmid of the document: None without an Id, or the data of the first.
pmid_of(ids) == IF Len(ids) = 0 THEN None ELSE ids[1]

InitPmid ==
    /\ driver = "get_pmid_from_doi"
    /\ pc = "query"
    /\ arg \in Dois
    /\ frames = <<>>
    /\ count = 0 /\ responses = <<>> /\ returned = None
    /\ InitNoDriver

\* One pass of the loop up to the sleep: the query succeeds and its pmid is
\* returned, or it fails and is counted, and None is returned when count is
\* over retries.
EntrezQuery ==
    /\ driver = "get_pmid_from_doi"
    /\ pc = "query"
    /\ \E data \in {Failure} \cup EntrezDocuments :
          /\ responses' = Append(responses, data)
          /\ IF data # Failure
             THEN returned' = pmid_of(data) /\ pc' = "done" /\ UNCHANGED count
             ELSE /\ count' = count + 1
                  /\ pc' = IF count + 1 > retries THEN "done" ELSE "sleep"
                  /\ returned' = None
    /\ UNCHANGED <<driver, arg, frames, run, vivo, clock, next_uri, add_file,
                   sub_file, exc_file, log_file, action_report, batch,
                   deptid_dictionary, ufid_dictionary, row, gvars, pvars, tvars>>

\* time.sleep(start**count) ends.
EntrezSleep ==
    /\ driver = "get_pmid_from_doi"
    /\ pc = "sleep"
    /\ pc' = "query"
    /\ UNCHANGED <<driver, lvars, run, vivo, clock, next_uri, add_file,
                   sub_file, exc_file, log_file, action_report, batch,
                   deptid_dictionary, ufid_dictionary, row, gvars, pvars, tvars>>

NextPmid == EntrezQuery \/ EntrezSleep

\* Every call of urlopen comes back, with an answer or an exception, and
\* every sleep ends.
SpecPmid == InitPmid /\ [][NextPmid]_vars /\ WF_vars(NextPmid)

PmidReturned == driver = "get_pmid_from_doi" /\ pc = "done"

\* What the call is to return for the document of a query: the first Id of
\* the document, None when it has none.
FirstId(data) == IF data = <<>> THEN None ELSE Head(data)

\* The queries that succeeded.
Succeeded == {i \in DOMAIN responses : responses[i] # Failure}

\* C27: get_pmid_from_doi returns; it makes at most 11 queries; it returns
\* the pmid of the first query that succeeds, and makes no query after it;
\* it returns None when no query succeeded, which is after 11 failures.
C27_PmidTerminates ==
    /\ <>(driver = "get_pmid_from_doi" => pc = "done")
    /\ [](Len(responses) <= 11)
    /\ [](PmidReturned =>
            IF Succeeded = {}
            THEN returned = None /\ Len(responses) = 11
            ELSE /\ Succeeded = {Len(responses)}
                 /\ returned = FirstId(responses[Len(responses)]))

\* The call has returned the pmid of its eleventh query, after ten failures.
C27_Witness ==
    PmidReturned /\ Len(responses) = 11 /\ count = 10 /\ returned = "pmid1"

----------------------------------------------------------------------------
(* The three drivers *)

Init == InitGrant(Files(UpdateRows), GrantGraphs) \/ InitPerson \/ InitCourse

Next ==
    \/ GrantStart \/ ReadRow \/ GrantReport \/ ProcessPcn \/ GrantFinish \/ GrantRerun
    \/ PersonStart \/ PersonReport \/ ProcessUfid \/ PersonFinish
    \/ CourseStart \/ CourseTaught \/ CourseDictionaries \/ CourseRow \/ CourseFinish

Spec == Init /\ [][Next]_vars

====
